---- MODULE Spec2Model ----
(***************************************************************************)
(* Model of the NNPI backend decision core (lib/Backends/NNPI/NNPI.cpp):   *)
(*   - NNPIBackend::bindContexts and traversePostOrder   (SpecBind)        *)
(*   - NNPIBackend::isOpSupported / acceptForExecution   (SpecOracle)      *)
(*   - parallelizeFunction in directive mode             (SpecPlan)        *)
(*   - parallelizeFunction in heuristic mode             (SpecHeuristic)   *)
(*   - the Model split of one FullyConnected             (SpecSplit)       *)
(*   - NNPIBackend::shouldLower, lowerRequiredNodes      (SpecLower)       *)
(*   - removeClipsBlockingFusion                         (SpecFusion)      *)
(*   - transformPostLowering followed by compile         (SpecCompile)     *)
(* Each specification drives one component; the variables of the other     *)
(* components stay at their initial values.                                *)
(***************************************************************************)
EXTENDS Integers, Sequences, FiniteSets, TLC

VARIABLES
  \* ---- bindContexts: arguments
  dagSize,      \* number of DAGNodes reachable from root; 0 models root == nullptr
  children,     \* DAGNode -> sequence of child DAGNodes (DAGNode::children)
  backendName,  \* DAGNode -> backend name (DAGNode::backendName)
  bindings,     \* sequence of ContextBinding
  enableP2P,
  enableDRT,
  \* ---- bindContexts: locals and observable effects
  pc,           \* position inside bindContexts
  postOrder,    \* std::vector<const DAGNode *> postOrder
  phUsage,      \* runtime::PlaceholderUsageMap phUsage
  idx,          \* position of the bind loop in postOrder
  bindCalls,    \* log of NNPIDeviceManager::bindContext calls, in call order
  bindResult,   \* what bindContexts returned
  \* ---- legality oracle
  ni,                           \* the NodeInfo under test
  GlowNNPIAcceptUnarySLS,       \* process-wide flag
  GlowNNPILowerAllBatchMatMul,  \* process-wide flag
  inferOnDevice,                \* NNPIBackend::backendOptions_.inferOnDevice
  supportedSeen,                \* <<flag, verdict>> of the isOpSupported(ni) calls
  acceptSeen,                   \* <<flag, verdict>> of the acceptForExecution(ni) calls
  useIceT,                      \* NNPIBackend::backendOptions_.useIceT
  lowerSeen,                    \* the last shouldLower call: its inputs and verdict
  requiredSeen,                 \* the last lowerRequiredNodes call: the flag and bool changed
  \* ---- parallelizeFunction(F, opts, usePerNodeParallelizationSpec = true)
  fnSize,       \* number of nodes of F; F->getNodes() lists them as 1 .. fnSize
  hasFunInfo,   \* opts.backendSpecificNodeInfo has an entry for F
  funInfo,      \* that entry: node -> (annotation key -> vector of strings)
  planPc,       \* position inside parallelizeFunction
  planIdx,      \* position of the loop of setupPerNodeParallelizationConfigs
  numChunks,    \* llvm::DenseMap<Node *, size_t> numChunks
  parOpts,      \* llvm::DenseMap<Node *, ParallelTransformKind> parOpts
  replacedMap,  \* replaced Node -> the ConcatNode that replaced it
  planResult,   \* what parallelizeFunction returned
  fcSplit,      \* a FullyConnected handed to parallelizeOps for a Model split: its
                \* operands, its own output and the output of the ConcatNode
  \* ---- the two callers of parallelizeFunction and what they pass
  usePerNodeParallelizationSpec,  \* third argument of parallelizeFunction
  fnNodes,                        \* node of F -> its kind, input node and shapes
  GlowNNPINumParallelChunks,      \* process-wide flag
  backendSpecificOpts,            \* opts.backendSpecificOpts, key -> string
  GlowDisableNNPITransforms,      \* process-wide flag
  phase,        \* position in the sequence transformPostLowering, compile
  planLog,      \* the parallelizeFunction calls that returned, in call order
  passesRun,    \* passes run on F by the FunctionPassManager of compile
  \* ---- removeClipsBlockingFusion(F)
  fusionNodes,  \* node of F -> its kind, input node and clip bounds
  fusionBefore, \* F as it was handed to removeClipsBlockingFusion
  fusionIdx,    \* position of the loop over F->getNodes()
  fusionPc,     \* position inside removeClipsBlockingFusion and after it
  changed       \* bool changed of removeClipsBlockingFusion

varsBind == <<dagSize, children, backendName, bindings, enableP2P, enableDRT,
              pc, postOrder, phUsage, idx, bindCalls, bindResult>>

varsOracle == <<ni, GlowNNPIAcceptUnarySLS, GlowNNPILowerAllBatchMatMul, inferOnDevice,
                supportedSeen, acceptSeen>>

varsLower == <<useIceT, lowerSeen, requiredSeen>>

varsPlan == <<fnSize, hasFunInfo, funInfo, planPc, planIdx, numChunks, parOpts,
              replacedMap, planResult, fcSplit>>

varsPipe == <<usePerNodeParallelizationSpec, fnNodes, GlowNNPINumParallelChunks,
              backendSpecificOpts, GlowDisableNNPITransforms, phase, planLog, passesRun>>

varsFusion == <<fusionNodes, fusionBefore, fusionIdx, fusionPc, changed>>

varsNotBind == <<varsOracle, varsLower, varsPlan, varsPipe, varsFusion>>

varsNotOracle == <<varsBind, varsLower, varsPlan, varsPipe, varsFusion>>

varsNotPlan == <<varsBind, varsOracle, varsLower, varsPipe, varsFusion>>

vars == <<varsBind, varsOracle, varsLower, varsPlan, varsPipe, varsFusion>>

\* ------------------------------------------------------------------------
\* Bounds
\* ------------------------------------------------------------------------
MaxDagNodes == 3

MaxFnNodes == 2

MaxFusionUsers == 2

MaxCompiles == 2

MaxChainNodes == 3

MaxCols == 4

\* ------------------------------------------------------------------------
\* The components at rest (the state a specification leaves the others in)
\* ------------------------------------------------------------------------
NoNodeInfo == [kind |-> "NoNodeKind", inTy |-> <<>>, outTy |-> <<>>]

IdleOracle ==
  /\ ni = NoNodeInfo
  /\ GlowNNPIAcceptUnarySLS = FALSE
  /\ GlowNNPILowerAllBatchMatMul = FALSE
  /\ inferOnDevice = FALSE
  /\ supportedSeen = {}
  /\ acceptSeen = {}

IdleLower ==
  /\ useIceT = FALSE
  /\ lowerSeen = [called |-> FALSE]
  /\ requiredSeen = [called |-> FALSE]

IdleFusion ==
  /\ fusionNodes = <<>>
  /\ fusionBefore = <<>>
  /\ fusionIdx = 0
  /\ fusionPc = "idle"
  /\ changed = FALSE

InitPlanLocals ==
  /\ planPc = "idle"
  /\ planIdx = 0
  /\ numChunks = <<>>
  /\ parOpts = <<>>
  /\ replacedMap = <<>>
  /\ planResult = "none"
  /\ fcSplit = [pc |-> "idle"]

\* A single call of parallelizeFunction in directive mode, outside the
\* compilation sequence.
IdlePipe ==
  /\ usePerNodeParallelizationSpec = TRUE
  /\ fnNodes = <<>>
  /\ GlowNNPINumParallelChunks = 0
  /\ backendSpecificOpts = <<>>
  /\ GlowDisableNNPITransforms = FALSE
  /\ phase = "call"
  /\ planLog = <<>>
  /\ passesRun = <<>>

IdlePlan ==
  /\ fnSize = 0
  /\ hasFunInfo = FALSE
  /\ funInfo = <<>>
  /\ InitPlanLocals
  /\ IdlePipe

IdleNotBind == IdleOracle /\ IdleLower /\ IdlePlan /\ IdleFusion

\* ------------------------------------------------------------------------
\* Partition Resource Binder
\* ------------------------------------------------------------------------
NullNode == 0

DagNodes == 1 .. dagSize

Root == IF dagSize = 0 THEN NullNode ELSE 1

NNPIName == "NNPI"

BackendNames == {NNPIName, "CPU"}

\* What a compiled network registered with its device manager reads/writes.
NetworkRoles == {"writer", "reader"}

NetworkOutputs(role) == IF role = "writer" THEN {"W"} ELSE {}

NetworkInputs(role) == IF role = "writer" THEN {"X"} ELSE {"W"}

EmptyUsage == [p \in {} |-> 0]

NewUsage == [numWriters |-> 0, numReaders |-> 0,
             disableP2P |-> FALSE, disableDRT |-> FALSE, tensor |-> NullNode]

UsageAt(usage, p) == IF p \in DOMAIN usage THEN usage[p] ELSE NewUsage

\* NNPIDeviceManager::addPlaceholderUsageCount: one more reader for every input
\* placeholder of the network, one more writer for every output placeholder.
addPlaceholderUsageCount(role, usage) ==
  [p \in DOMAIN usage \cup NetworkInputs(role) \cup NetworkOutputs(role) |->
     [UsageAt(usage, p) EXCEPT
        !.numReaders = @ + (IF p \in NetworkInputs(role) THEN 1 ELSE 0),
        !.numWriters = @ + (IF p \in NetworkOutputs(role) THEN 1 ELSE 0)]]

RECURSIVE traversePostOrder(_, _)
RECURSIVE traverseChildren(_, _, _)
RECURSIVE traversePreOrder(_, _)
RECURSIVE traversePreChildren(_, _, _)

\* Faulty traversal: the node is pushed before its children are traversed.
traversePreOrder(root, st) ==
  IF root = NullNode THEN st
  ELSE traversePreChildren(children[root], 1,
         [st EXCEPT !.visited = @ \cup {root}, !.postOrder = Append(@, root)])

traversePreChildren(cs, i, st) ==
  IF i > Len(cs) THEN st
  ELSE traversePreChildren(cs, i + 1,
         IF cs[i] \in st.visited THEN st ELSE traversePreOrder(cs[i], st))

\* visited.insert(root); recurse into unvisited children; postOrder.push_back.
traversePostOrder(root, st) ==
  IF root = NullNode THEN st
  ELSE LET entered == [st EXCEPT !.visited = @ \cup {root}]
           after == traverseChildren(children[root], 1, entered)
       IN [after EXCEPT !.postOrder = Append(@, root)]

traverseChildren(cs, i, st) ==
  IF i > Len(cs) THEN st
  ELSE traverseChildren(cs, i + 1,
         IF cs[i] \in st.visited THEN st ELSE traversePostOrder(cs[i], st))

RECURSIVE collectUsage(_, _, _)

\* The loop over bindings (collect placeholders usage count), up to binding last.
collectUsage(i, last, usage) ==
  IF i > last THEN usage
  ELSE collectUsage(i + 1, last, addPlaceholderUsageCount(bindings[i].role, usage))

\* Index of the first binding whose device is not an NNPIDeviceManager, 0 if none.
FirstInvalidDevice ==
  LET bad == {i \in 1 .. Len(bindings) : ~bindings[i].deviceIsNNPI}
  IN IF bad = {} THEN 0 ELSE CHOOSE i \in bad : \A j \in bad : i <= j

\* Index of the first binding with cb.networkName == name, 0 if none.
FindBinding(name) ==
  LET hit == {i \in 1 .. Len(bindings) : bindings[i].networkName = name}
  IN IF hit = {} THEN 0 ELSE CHOOSE i \in hit : \A j \in hit : i <= j

\* All orderings of a finite set, as sequences.
RECURSIVE Orderings(_)
Orderings(S) ==
  IF S = {} THEN {<<>>}
  ELSE UNION {{<<x>> \o t : t \in Orderings(S \ {x})} : x \in S}

ChildSeqs(n, i) == UNION {Orderings(S) : S \in SUBSET ((i + 1) .. n)}

\* Per DAGNode: its backend and the ContextBinding made for it, if any.
NoBinding == [present |-> FALSE, deviceIsNNPI |-> TRUE, role |-> "reader"]

BindingChoices(b) ==
  IF b = NNPIName
  THEN {NoBinding}
       \cup {[present |-> TRUE, deviceIsNNPI |-> TRUE, role |-> r] : r \in NetworkRoles}
       \cup {[present |-> TRUE, deviceIsNNPI |-> FALSE, role |-> "reader"]}
  ELSE {NoBinding, [present |-> TRUE, deviceIsNNPI |-> TRUE, role |-> "writer"]}

RECURSIVE BindingsOf(_, _, _)
BindingsOf(choice, i, n) ==
  IF i > n THEN <<>>
  ELSE (IF choice[i].present
        THEN <<[networkName |-> i, deviceIsNNPI |-> choice[i].deviceIsNNPI,
                role |-> choice[i].role]>>
        ELSE <<>>) \o BindingsOf(choice, i + 1, n)

InitBindLocals ==
  /\ enableP2P = FALSE
  /\ enableDRT = FALSE
  /\ pc = "idle"
  /\ postOrder = <<>>
  /\ phUsage = EmptyUsage
  /\ idx = 0
  /\ bindCalls = <<>>
  /\ bindResult = "none"

\* The children vectors of DAGNodes i .. n, every child having a larger number.
RECURSIVE ChildrenFrom(_, _)
ChildrenFrom(n, i) ==
  IF i > n THEN {<<>>}
  ELSE {<<cs>> \o rest : cs \in ChildSeqs(n, i), rest \in ChildrenFrom(n, i + 1)}

\* The ContextBinding choices of DAGNodes i .. n with backends b.
RECURSIVE BindingChoicesFrom(_, _, _)
BindingChoicesFrom(b, n, i) ==
  IF i > n THEN {<<>>}
  ELSE {<<ch>> \o rest : ch \in BindingChoices(b[i]), rest \in BindingChoicesFrom(b, n, i + 1)}

InitBind ==
  /\ dagSize \in 0 .. MaxDagNodes
  /\ children \in {c \in ChildrenFrom(dagSize, 1) :
                     \A j \in 2 .. dagSize :
                       \E i \in 1 .. (j - 1) : \E k \in 1 .. Len(c[i]) : c[i][k] = j}
  /\ backendName \in [1 .. dagSize -> BackendNames]
  /\ \E choice \in BindingChoicesFrom(backendName, dagSize, 1) :
       bindings = BindingsOf(choice, 1, dagSize)
  /\ InitBindLocals
  /\ IdleNotBind

\* bindContexts entry: post-order traversal and the usage-count loop.
BindContextsBegin ==
  /\ pc = "idle"
  /\ \E p2p \in BOOLEAN, drt \in BOOLEAN :
       /\ enableP2P' = p2p
       /\ enableDRT' = drt
  /\ postOrder' = traversePostOrder(Root, [visited |-> {}, postOrder |-> <<>>]).postOrder
  /\ IF FirstInvalidDevice # 0
     THEN /\ phUsage' = collectUsage(1, FirstInvalidDevice - 1, EmptyUsage)
          /\ pc' = "done"
          /\ bindResult' = "error"
     ELSE /\ phUsage' = collectUsage(1, Len(bindings), EmptyUsage)
          /\ pc' = "check"
          /\ bindResult' = bindResult
  /\ UNCHANGED <<dagSize, children, backendName, bindings, idx, bindCalls>>
  /\ UNCHANGED varsNotBind

\* Faulty check: two writers are let through.
WritersOkOffByOne(usage) == \A p \in DOMAIN usage : usage[p].numWriters < 3

\* Whether the writer-count loop lets the usage table through.
WritersOk(usage) == \A p \in DOMAIN usage : usage[p].numWriters < 2

\* Faulty marking: both flags are taken from enableP2P.
MarkUsageP2PForBoth(usage, p2p, drt) ==
  [p \in DOMAIN usage |-> [usage[p] EXCEPT !.disableP2P = ~p2p, !.disableDRT = ~p2p]]

\* The flags the writer-count loop stores into every usage record.
MarkUsage(usage, p2p, drt) ==
  [p \in DOMAIN usage |-> [usage[p] EXCEPT !.disableP2P = ~p2p, !.disableDRT = ~drt]]

\* The loop over phUsage: reject multiple writers, else set the capability flags.
CheckWriters ==
  /\ pc = "check"
  /\ IF WritersOk(phUsage)
     THEN /\ phUsage' = MarkUsage(phUsage, enableP2P, enableDRT)
          /\ pc' = "bind"
          /\ idx' = 1
          /\ bindResult' = bindResult
     ELSE /\ pc' = "done"
          /\ bindResult' = "error"
          /\ UNCHANGED <<phUsage, idx>>
  /\ UNCHANGED <<dagSize, children, backendName, bindings, enableP2P, enableDRT,
                 postOrder, bindCalls>>
  /\ UNCHANGED varsNotBind

\* Faulty guard: the backend of the partition is not looked at.
ShouldBindAnyBackend(dagNode) == FindBinding(dagNode) # 0

\* Whether the bind loop issues a device bind call for dagNode.
ShouldBind(dagNode) == backendName[dagNode] = NNPIName /\ FindBinding(dagNode) # 0

\* usage.second.tensor = phBindings->get(ph) for every usage record.
AttachTensors(usage, dagNode) == [p \in DOMAIN usage |-> [usage[p] EXCEPT !.tensor = dagNode]]

\* One iteration of the loop over postOrder that skips dagNode.
BindSkip ==
  /\ pc = "bind"
  /\ idx <= Len(postOrder)
  /\ ~ShouldBind(postOrder[idx])
  /\ idx' = idx + 1
  /\ UNCHANGED <<dagSize, children, backendName, bindings, enableP2P, enableDRT,
                 pc, postOrder, phUsage, bindCalls, bindResult>>
  /\ UNCHANGED varsNotBind

\* Faulty iteration: a failed bind call is logged and the loop goes on.
BindNodeIgnoringFailure ==
  /\ pc = "bind"
  /\ idx <= Len(postOrder)
  /\ ShouldBind(postOrder[idx])
  /\ phUsage' = AttachTensors(phUsage, postOrder[idx])
  /\ \E failed \in BOOLEAN :
       bindCalls' = Append(bindCalls, [name |-> postOrder[idx], failed |-> failed])
  /\ idx' = idx + 1
  /\ UNCHANGED <<dagSize, children, backendName, bindings, enableP2P, enableDRT,
                 pc, postOrder, bindResult>>
  /\ UNCHANGED varsNotBind

\* One iteration of the loop over postOrder that calls nnpiDM->bindContext.
BindNode ==
  /\ pc = "bind"
  /\ idx <= Len(postOrder)
  /\ ShouldBind(postOrder[idx])
  /\ phUsage' = AttachTensors(phUsage, postOrder[idx])
  /\ \E failed \in BOOLEAN :
       /\ bindCalls' = Append(bindCalls, [name |-> postOrder[idx], failed |-> failed])
       /\ IF failed
          THEN /\ pc' = "done"
               /\ bindResult' = "error"
               /\ idx' = idx
          ELSE /\ pc' = pc
               /\ bindResult' = bindResult
               /\ idx' = idx + 1
  /\ UNCHANGED <<dagSize, children, backendName, bindings, enableP2P, enableDRT,
                 postOrder>>
  /\ UNCHANGED varsNotBind

\* The loop is over: return Error::success().
BindContextsReturn ==
  /\ pc = "bind"
  /\ idx > Len(postOrder)
  /\ pc' = "done"
  /\ bindResult' = "success"
  /\ UNCHANGED <<dagSize, children, backendName, bindings, enableP2P, enableDRT,
                 postOrder, phUsage, idx, bindCalls>>
  /\ UNCHANGED varsNotBind

NextBind ==
  \/ BindContextsBegin
  \/ CheckWriters
  \/ BindSkip
  \/ BindNode
  \/ BindContextsReturn

SpecBind == InitBind /\ [][NextBind]_vars

\* ------------------------------------------------------------------------
\* Legality Oracle
\* ------------------------------------------------------------------------
ElemKinds == {"FloatTy", "Float16Ty", "Int8QTy", "UInt8QTy", "Int16QTy", "Int32QTy",
              "Int32ITy", "Int64ITy", "UInt8FusedQTy", "UInt8FusedFP16QTy",
              "UInt4FusedFP16QTy", "BoolTy"}

\* Type::isQuantizedType
isQuantizedType(type) ==
  type.elem \in {"Int8QTy", "UInt8QTy", "Int16QTy", "Int32QTy", "UInt8FusedQTy",
                 "UInt8FusedFP16QTy", "UInt4FusedFP16QTy"}

getInTy(NI, i) == NI.inTy[i]

getOutTy(NI, i) == NI.outTy[i]

getInElemTy(NI, i) == NI.inTy[i].elem

getOutElemTy(NI, i) == NI.outTy[i].elem

\* NodeInfo::allInputsAndOutputsHaveSameElemKind: the inputs and outputs that are
\* not ignored all have one element kind, and it is one of the allowed kinds.
allInputsAndOutputsHaveSameElemKind(NI, allowed, ignoreIn, ignoreOut) ==
  LET found == {NI.inTy[i].elem : i \in (DOMAIN NI.inTy) \ ignoreIn}
                 \cup {NI.outTy[o].elem : o \in (DOMAIN NI.outTy) \ ignoreOut}
  IN /\ Cardinality(found) <= 1
     /\ (allowed = {} \/ found \subseteq allowed)

MaxSLSIndices == 65536

\* Faulty bound: 65536 indices are let through.
isSLSIndicesValidInclusive(type) ==
  Len(type.dims) = 1 /\ type.dims[1] <= MaxSLSIndices

isSLSIndicesValid(type) ==
  Len(type.dims) = 1 /\ type.dims[1] < MaxSLSIndices

isUnaryLookup(type) ==
  IF Len(type.dims) # 2 THEN FALSE ELSE type.dims[2] = 1

GeneralMathKinds ==
  {"AddNodeKind", "SubNodeKind", "MulNodeKind", "MaxNodeKind", "MinNodeKind",
   "PowNodeKind", "ReluNodeKind", "ReplaceNaNNodeKind", "MatMulNodeKind",
   "BatchedReduceAddNodeKind", "BatchedReduceMeanNodeKind", "BatchedReduceMinNodeKind",
   "LocalResponseNormalizationNodeKind", "BatchedAddNodeKind", "TanhNodeKind",
   "LogNodeKind", "SigmoidNodeKind", "SplatNodeKind", "ExpNodeKind"}

SupportedGeneralMath(NI) ==
  allInputsAndOutputsHaveSameElemKind(NI,
    {"FloatTy", "Float16Ty", "Int8QTy", "Int32ITy", "Int64ITy"}, {}, {})

SupportedLayerNormalization(NI) ==
  allInputsAndOutputsHaveSameElemKind(NI, {"FloatTy", "Float16Ty", "Int8QTy"}, {}, {})

NormPoolKinds ==
  {"BatchNormalizationNodeKind", "AvgPoolNodeKind", "AdaptiveAvgPoolNodeKind"}

SupportedNormPool(NI) ==
  allInputsAndOutputsHaveSameElemKind(NI, {"FloatTy", "Float16Ty", "Int8QTy"}, {}, {})

LowPrecisionKinds == {"BatchMatMulNodeKind", "PReluNodeKind", "ClipNodeKind"}

SupportedLowPrecision(NI) ==
  allInputsAndOutputsHaveSameElemKind(NI, {"Int8QTy", "Float16Ty"}, {}, {})

SupportedDiv(NI) ==
  allInputsAndOutputsHaveSameElemKind(NI,
    {"FloatTy", "Float16Ty", "Int8QTy", "Int64ITy"}, {}, {})

DataTransferKinds ==
  {"SaveNodeKind", "ConcatNodeKind", "TileNodeKind", "TransposeNodeKind"}

SupportedDataTransfer(NI) ==
  allInputsAndOutputsHaveSameElemKind(NI,
    {"FloatTy", "Float16Ty", "Int8QTy", "Int32ITy", "Int64ITy", "BoolTy"}, {}, {})

SupportedConvolution(NI) ==
  IF ~isQuantizedType(getInTy(NI, "Input"))
  THEN allInputsAndOutputsHaveSameElemKind(NI, {"FloatTy", "Float16Ty"}, {}, {})
  ELSE /\ allInputsAndOutputsHaveSameElemKind(NI, {"Int8QTy"}, {"Bias"}, {})
       /\ \/ getInElemTy(NI, "Bias") = "Int32QTy"
          \/ getInElemTy(NI, "Bias") = "FloatTy"

SupportedConvolution3D(NI) ==
  IF ~isQuantizedType(getInTy(NI, "Input"))
  THEN allInputsAndOutputsHaveSameElemKind(NI, {"FloatTy", "Float16Ty"}, {}, {})
  ELSE /\ allInputsAndOutputsHaveSameElemKind(NI, {"Int8QTy"}, {"Bias"}, {})
       /\ \/ getInElemTy(NI, "Bias") = "Int32QTy"
          \/ getInElemTy(NI, "Bias") = "FloatTy"

SupportedQuantize(NI) ==
  /\ \/ getInElemTy(NI, "Input") = "FloatTy"
     \/ getInElemTy(NI, "Input") = "Float16Ty"
  /\ getOutElemTy(NI, "Result") = "Int8QTy"

SupportedDequantize(NI) ==
  /\ getInElemTy(NI, "Input") = "Int8QTy"
  /\ \/ getOutElemTy(NI, "Result") = "FloatTy"
     \/ getOutElemTy(NI, "Result") = "Float16Ty"

SupportedRescaleQuantized(NI) ==
  allInputsAndOutputsHaveSameElemKind(NI, {"Int8QTy"}, {}, {})

isConversionSupportedFor(kind) ==
  kind \in {"FloatTy", "Float16Ty", "Int32ITy", "Int64ITy"}

SupportedConvertTo(NI) ==
  /\ isConversionSupportedFor(getInElemTy(NI, "Input"))
  /\ isConversionSupportedFor(getOutElemTy(NI, "Result"))

\* Faulty arm: the element kind of the bias of a quantized node is not checked.
SupportedFullyConnectedAnyBias(NI) ==
  IF ~isQuantizedType(getInTy(NI, "Input"))
  THEN allInputsAndOutputsHaveSameElemKind(NI, {"FloatTy", "Float16Ty"}, {}, {})
  ELSE allInputsAndOutputsHaveSameElemKind(NI, {"Int8QTy"}, {"Bias"}, {})

SupportedFullyConnected(NI) ==
  IF ~isQuantizedType(getInTy(NI, "Input"))
  THEN allInputsAndOutputsHaveSameElemKind(NI, {"FloatTy", "Float16Ty"}, {}, {})
  ELSE /\ allInputsAndOutputsHaveSameElemKind(NI, {"Int8QTy"}, {"Bias"}, {})
       /\ \/ getInElemTy(NI, "Bias") = "Int32QTy"
          \/ getInElemTy(NI, "Bias") = "FloatTy"

SupportedMaxPool(NI) ==
  /\ allInputsAndOutputsHaveSameElemKind(NI, {"FloatTy", "Float16Ty", "Int8QTy"},
                                         {}, {"Argmax"})
  /\ getOutElemTy(NI, "Argmax") = "Int64ITy"

SupportedTopK(NI) ==
  /\ allInputsAndOutputsHaveSameElemKind(NI, {"FloatTy", "Float16Ty", "Int8QTy"},
                                         {}, {"Indices"})
  /\ getOutElemTy(NI, "Indices") = "Int64ITy"

SupportedGather(NI) ==
  /\ allInputsAndOutputsHaveSameElemKind(NI,
       {"FloatTy", "Float16Ty", "Int64ITy", "Int8QTy"}, {"Indices"}, {})
  /\ \/ getInElemTy(NI, "Indices") = "Int32ITy"
     \/ getInElemTy(NI, "Indices") = "Int64ITy"

SupportedGatherRanges(NI) ==
  /\ allInputsAndOutputsHaveSameElemKind(NI, {"Int32ITy", "Int64ITy"},
                                         {"Data"}, {"Output"})
  /\ \/ getInElemTy(NI, "Data") = "FloatTy"
     \/ getInElemTy(NI, "Data") = "Float16Ty"
     \/ getInElemTy(NI, "Data") = "Int8QTy"
     \/ getInElemTy(NI, "Data") = "Int32ITy"
     \/ getInElemTy(NI, "Data") = "Int64ITy"
  /\ getOutElemTy(NI, "Output") = getInElemTy(NI, "Data")

SupportedSliceReshape(NI) ==
  allInputsAndOutputsHaveSameElemKind(NI,
    {"FloatTy", "Float16Ty", "Int8QTy", "Int64ITy"}, {}, {})

CmpKinds == {"CmpLTENodeKind", "CmpEQNodeKind", "CmpLTNodeKind"}

SupportedCmp(NI) ==
  /\ allInputsAndOutputsHaveSameElemKind(NI,
       {"FloatTy", "Float16Ty", "Int8QTy", "Int32ITy", "Int64ITy"}, {}, {"Result"})
  /\ getOutElemTy(NI, "Result") = "BoolTy"

SupportedSelect(NI) ==
  /\ allInputsAndOutputsHaveSameElemKind(NI, {"FloatTy", "Float16Ty", "Int8QTy"},
                                         {"Cond"}, {})
  /\ getInElemTy(NI, "Cond") = "BoolTy"

SupportedRowwiseQuantizedFullyConnected(NI) ==
  /\ getInElemTy(NI, "Input") = "Int8QTy"
  /\ getInElemTy(NI, "Weights") = "Int8QTy"
  /\ getInElemTy(NI, "Scales") = "FloatTy"
  /\ getInElemTy(NI, "Offsets") = "Int32ITy"
  /\ \/ getInElemTy(NI, "Bias") = "Int32QTy"
     \/ getInElemTy(NI, "Bias") = "FloatTy"
  /\ getOutElemTy(NI, "Result") = "Int8QTy"

SupportedChannelwiseQuantizedConvolution(NI) ==
  /\ getInElemTy(NI, "Input") = "Int8QTy"
  /\ getInElemTy(NI, "Filter") = "Int8QTy"
  /\ \/ getInElemTy(NI, "Bias") = "Int32QTy"
     \/ getInElemTy(NI, "Bias") = "FloatTy"
  /\ getInElemTy(NI, "FilterScales") = "FloatTy"
  /\ getInElemTy(NI, "FilterOffsets") = "Int32ITy"
  /\ getOutElemTy(NI, "Result") = "Int8QTy"

\* Faulty arm: the unary-lookup policy of acceptForExecution leaks into legality.
SupportedSparseLengthsSumWithPolicy(NI) ==
  /\ isSLSIndicesValid(getInTy(NI, "Indices"))
  /\ allInputsAndOutputsHaveSameElemKind(NI, {"FloatTy", "Float16Ty", "Int8QTy"},
                                         {"Indices", "Lengths"}, {})
  /\ \/ getInElemTy(NI, "Indices") = "Int64ITy"
     \/ getInElemTy(NI, "Indices") = "Int32ITy"
  /\ getInElemTy(NI, "Lengths") = "Int32ITy"
  /\ (GlowNNPIAcceptUnarySLS \/ ~isUnaryLookup(getInTy(NI, "Data")))

SupportedSparseLengthsSum(NI) ==
  /\ isSLSIndicesValid(getInTy(NI, "Indices"))
  /\ allInputsAndOutputsHaveSameElemKind(NI, {"FloatTy", "Float16Ty", "Int8QTy"},
                                         {"Indices", "Lengths"}, {})
  /\ \/ getInElemTy(NI, "Indices") = "Int64ITy"
     \/ getInElemTy(NI, "Indices") = "Int32ITy"
  /\ getInElemTy(NI, "Lengths") = "Int32ITy"

SupportedSparseLengthsWeightedSum(NI) ==
  /\ isSLSIndicesValid(getInTy(NI, "Indices"))
  /\ allInputsAndOutputsHaveSameElemKind(NI, {"FloatTy", "Float16Ty", "Int8QTy"},
                                         {"Indices", "Lengths"}, {})
  /\ \/ getInElemTy(NI, "Indices") = "Int64ITy"
     \/ getInElemTy(NI, "Indices") = "Int32ITy"
  /\ getInElemTy(NI, "Lengths") = "Int32ITy"

SupportedEmbeddingBag(NI) ==
  /\ isSLSIndicesValid(getInTy(NI, "Indices"))
  /\ allInputsAndOutputsHaveSameElemKind(NI, {"FloatTy", "Float16Ty", "Int8QTy"},
                                         {"Indices", "Offsets"}, {})
  /\ getInElemTy(NI, "Indices") = "Int64ITy"
  /\ getInElemTy(NI, "Offsets") = "Int64ITy"

FusedDataKinds == {"UInt8FusedQTy", "UInt8FusedFP16QTy", "UInt4FusedFP16QTy"}

SupportedEmbeddingBagByteRowwiseOffsets(NI) ==
  LET dataK == getInElemTy(NI, "Data")
      offsetsK == getInElemTy(NI, "Offsets")
      indicesK == getInElemTy(NI, "Indices")
      resultK == getOutElemTy(NI, "Result")
  IN /\ isSLSIndicesValid(getInTy(NI, "Indices"))
     /\ (dataK = "UInt8FusedQTy" \/ dataK = "UInt8FusedFP16QTy"
           \/ dataK = "UInt4FusedFP16QTy")
     /\ (resultK = "FloatTy" \/ resultK = "Float16Ty")
     /\ indicesK = "Int64ITy"
     /\ offsetsK = "Int64ITy"

SupportedFusedRowwiseQuantizedSparseLengthsSum(NI) ==
  LET dataK == getInElemTy(NI, "Data")
      lengthsK == getInElemTy(NI, "Lengths")
      indicesK == getInElemTy(NI, "Indices")
      resultK == getOutElemTy(NI, "Result")
  IN /\ isSLSIndicesValid(getInTy(NI, "Indices"))
     /\ (dataK = "UInt8FusedQTy" \/ dataK = "UInt8FusedFP16QTy"
           \/ dataK = "UInt4FusedFP16QTy")
     /\ (resultK = "FloatTy" \/ resultK = "Float16Ty")
     /\ (indicesK = "Int64ITy" \/ indicesK = "Int32ITy")
     /\ lengthsK = "Int32ITy"

SupportedFusedRowwiseQuantizedSparseLengthsWeightedSum(NI) ==
  LET dataK == getInElemTy(NI, "Data")
      weightsK == getInElemTy(NI, "Weights")
      lengthsK == getInElemTy(NI, "Lengths")
      indicesK == getInElemTy(NI, "Indices")
      resultK == getOutElemTy(NI, "Result")
  IN /\ isSLSIndicesValid(getInTy(NI, "Indices"))
     /\ (dataK = "UInt8FusedQTy" \/ dataK = "UInt8FusedFP16QTy"
           \/ dataK = "UInt4FusedFP16QTy")
     /\ (weightsK = "FloatTy" \/ weightsK = "Float16Ty")
     /\ (resultK = "FloatTy" \/ resultK = "Float16Ty")
     /\ (indicesK = "Int64ITy" \/ indicesK = "Int32ITy")
     /\ lengthsK = "Int32ITy"

SupportedRowwiseQuantizedSparseLengthsWeightedSum(NI) ==
  /\ isSLSIndicesValid(getInTy(NI, "Indices"))
  /\ allInputsAndOutputsHaveSameElemKind(NI, {"FloatTy", "Float16Ty"},
                                         {"Data", "Indices", "Lengths"}, {})
  /\ getInElemTy(NI, "Data") = "UInt8QTy"
  /\ \/ getInElemTy(NI, "Indices") = "Int64ITy"
     \/ getInElemTy(NI, "Indices") = "Int32ITy"
  /\ getInElemTy(NI, "Lengths") = "Int32ITy"

SupportedSparseToDense(NI) ==
  /\ allInputsAndOutputsHaveSameElemKind(NI, {"FloatTy"}, {"Indices"}, {})
  /\ getInElemTy(NI, "Indices") = "Int64ITy"

SupportedSoftMax(NI) ==
  /\ allInputsAndOutputsHaveSameElemKind(NI, {"FloatTy", "Float16Ty", "Int8QTy"},
                                         {"Selected"}, {})
  /\ getInElemTy(NI, "Selected") = "Int64ITy"

SupportedLengthsRangeFill(NI) ==
  allInputsAndOutputsHaveSameElemKind(NI, {"Int32ITy"}, {}, {})

SupportedBatchOneHot(NI) ==
  /\ allInputsAndOutputsHaveSameElemKind(NI,
       {"FloatTy", "Float16Ty", "Int8QTy", "Int32ITy", "Int64ITy"}, {"Lengths"}, {})
  /\ getInElemTy(NI, "Lengths") = "Int32ITy"

CustomKinds == {"NNPICustomDSPNodeKind", "NNPICustomIANodeKind"}

SupportedSpaceToDepth(NI) ==
  allInputsAndOutputsHaveSameElemKind(NI,
    {"FloatTy", "Float16Ty", "Int8QTy", "Int32ITy", "Int64ITy"}, {}, {})

SupportedArgMax(NI) == getOutElemTy(NI, "Result") = "Int64ITy"

SupportedLogit(NI) ==
  allInputsAndOutputsHaveSameElemKind(NI, {"FloatTy", "Float16Ty"}, {}, {})

isOpSupported(NI) ==
  CASE NI.kind \in GeneralMathKinds -> SupportedGeneralMath(NI)
    [] NI.kind = "LayerNormalizationNodeKind" -> SupportedLayerNormalization(NI)
    [] NI.kind \in NormPoolKinds -> SupportedNormPool(NI)
    [] NI.kind \in LowPrecisionKinds -> SupportedLowPrecision(NI)
    [] NI.kind = "DivNodeKind" -> SupportedDiv(NI)
    [] NI.kind \in DataTransferKinds -> SupportedDataTransfer(NI)
    [] NI.kind = "ConvolutionNodeKind" -> SupportedConvolution(NI)
    [] NI.kind = "Convolution3DNodeKind" -> SupportedConvolution3D(NI)
    [] NI.kind = "QuantizeNodeKind" -> SupportedQuantize(NI)
    [] NI.kind = "DequantizeNodeKind" -> SupportedDequantize(NI)
    [] NI.kind = "RescaleQuantizedNodeKind" -> SupportedRescaleQuantized(NI)
    [] NI.kind = "ConvertToNodeKind" -> SupportedConvertTo(NI)
    [] NI.kind = "FullyConnectedNodeKind" -> SupportedFullyConnected(NI)
    [] NI.kind = "MaxPoolNodeKind" -> SupportedMaxPool(NI)
    [] NI.kind = "TopKNodeKind" -> SupportedTopK(NI)
    [] NI.kind = "GatherNodeKind" -> SupportedGather(NI)
    [] NI.kind = "GatherRangesNodeKind" -> SupportedGatherRanges(NI)
    [] NI.kind \in {"SliceNodeKind", "ReshapeNodeKind"} -> SupportedSliceReshape(NI)
    [] NI.kind \in CmpKinds -> SupportedCmp(NI)
    [] NI.kind = "SelectNodeKind" -> SupportedSelect(NI)
    [] NI.kind = "RowwiseQuantizedFullyConnectedNodeKind" ->
         SupportedRowwiseQuantizedFullyConnected(NI)
    [] NI.kind = "ChannelwiseQuantizedConvolutionNodeKind" ->
         SupportedChannelwiseQuantizedConvolution(NI)
    [] NI.kind = "SparseLengthsSumNodeKind" -> SupportedSparseLengthsSum(NI)
    [] NI.kind = "SparseLengthsWeightedSumNodeKind" ->
         SupportedSparseLengthsWeightedSum(NI)
    [] NI.kind = "EmbeddingBagNodeKind" -> SupportedEmbeddingBag(NI)
    [] NI.kind = "EmbeddingBagByteRowwiseOffsetsNodeKind" ->
         SupportedEmbeddingBagByteRowwiseOffsets(NI)
    [] NI.kind = "FusedRowwiseQuantizedSparseLengthsSumNodeKind" ->
         SupportedFusedRowwiseQuantizedSparseLengthsSum(NI)
    [] NI.kind = "FusedRowwiseQuantizedSparseLengthsWeightedSumNodeKind" ->
         SupportedFusedRowwiseQuantizedSparseLengthsWeightedSum(NI)
    [] NI.kind = "RowwiseQuantizedSparseLengthsWeightedSumNodeKind" ->
         SupportedRowwiseQuantizedSparseLengthsWeightedSum(NI)
    [] NI.kind = "SparseToDenseNodeKind" -> SupportedSparseToDense(NI)
    [] NI.kind = "SoftMaxNodeKind" -> SupportedSoftMax(NI)
    [] NI.kind = "LengthsRangeFillNodeKind" -> SupportedLengthsRangeFill(NI)
    [] NI.kind = "BatchOneHotNodeKind" -> SupportedBatchOneHot(NI)
    [] NI.kind \in CustomKinds -> TRUE
    [] NI.kind = "SpaceToDepthNodeKind" -> SupportedSpaceToDepth(NI)
    [] NI.kind = "ArgMaxNodeKind" -> SupportedArgMax(NI)
    [] NI.kind = "LogitNodeKind" -> SupportedLogit(NI)
    [] OTHER -> FALSE

\* Faulty policy: the override flag is not consulted.
acceptForExecutionNoOverride(NI) ==
  IF ~isOpSupported(NI) THEN FALSE
  ELSE CASE NI.kind = "SparseLengthsSumNodeKind" ->
              ~isUnaryLookup(getInTy(NI, "Data"))
         [] NI.kind = "SparseLengthsWeightedSumNodeKind" ->
              ~isUnaryLookup(getInTy(NI, "Data"))
         [] OTHER -> TRUE

\* Faulty policy: isOpSupported is not asked first.
acceptForExecutionUnchecked(NI) ==
  CASE NI.kind = "SparseLengthsSumNodeKind" ->
         GlowNNPIAcceptUnarySLS \/ ~isUnaryLookup(getInTy(NI, "Data"))
    [] NI.kind = "SparseLengthsWeightedSumNodeKind" ->
         GlowNNPIAcceptUnarySLS \/ ~isUnaryLookup(getInTy(NI, "Data"))
    [] OTHER -> TRUE

acceptForExecution(NI) ==
  IF ~isOpSupported(NI) THEN FALSE
  ELSE CASE NI.kind = "SparseLengthsSumNodeKind" ->
              GlowNNPIAcceptUnarySLS \/ ~isUnaryLookup(getInTy(NI, "Data"))
         [] NI.kind = "SparseLengthsWeightedSumNodeKind" ->
              GlowNNPIAcceptUnarySLS \/ ~isUnaryLookup(getInTy(NI, "Data"))
         [] OTHER -> TRUE

\* ------------------------------------------------------------------------
\* Operation instances handed to the oracle
\* ------------------------------------------------------------------------
\* A kind outside the switch of isOpSupported.
UnhandledKind == "RegressionNodeKind"

NodeKinds ==
  GeneralMathKinds \cup NormPoolKinds \cup LowPrecisionKinds \cup DataTransferKinds
    \cup CmpKinds \cup CustomKinds
    \cup {"LayerNormalizationNodeKind", "DivNodeKind", "ConvolutionNodeKind",
          "Convolution3DNodeKind", "QuantizeNodeKind", "DequantizeNodeKind",
          "RescaleQuantizedNodeKind", "ConvertToNodeKind", "FullyConnectedNodeKind",
          "MaxPoolNodeKind", "TopKNodeKind", "GatherNodeKind", "GatherRangesNodeKind",
          "SliceNodeKind", "ReshapeNodeKind", "SelectNodeKind",
          "RowwiseQuantizedFullyConnectedNodeKind",
          "ChannelwiseQuantizedConvolutionNodeKind", "SparseLengthsSumNodeKind",
          "SparseLengthsWeightedSumNodeKind", "EmbeddingBagNodeKind",
          "EmbeddingBagByteRowwiseOffsetsNodeKind",
          "FusedRowwiseQuantizedSparseLengthsSumNodeKind",
          "FusedRowwiseQuantizedSparseLengthsWeightedSumNodeKind",
          "RowwiseQuantizedSparseLengthsWeightedSumNodeKind", "SparseToDenseNodeKind",
          "SoftMaxNodeKind", "LengthsRangeFillNodeKind", "BatchOneHotNodeKind",
          "SpaceToDepthNodeKind", "ArgMaxNodeKind", "LogitNodeKind", UnhandledKind}

\* The kinds whose arm consults isSLSIndicesValid.
SLSFamilyKinds ==
  {"SparseLengthsSumNodeKind", "SparseLengthsWeightedSumNodeKind",
   "EmbeddingBagNodeKind", "EmbeddingBagByteRowwiseOffsetsNodeKind",
   "FusedRowwiseQuantizedSparseLengthsSumNodeKind",
   "FusedRowwiseQuantizedSparseLengthsWeightedSumNodeKind",
   "RowwiseQuantizedSparseLengthsWeightedSumNodeKind"}

KMath == {"FloatTy", "Float16Ty", "Int8QTy", "Int32ITy", "Int64ITy"}

KFloatQ == {"FloatTy", "Float16Ty", "Int8QTy"}

KLow == {"Int8QTy", "Float16Ty"}

KDiv == {"FloatTy", "Float16Ty", "Int8QTy", "Int64ITy"}

KData == {"FloatTy", "Float16Ty", "Int8QTy", "Int32ITy", "Int64ITy", "BoolTy"}

KFloat == {"FloatTy", "Float16Ty"}

KBias == {"FloatTy", "Float16Ty", "Int32QTy"}

KIndex == {"Int32ITy", "Int64ITy"}

\* For every kind: its inputs and outputs, each with the element kinds the arm of
\* isOpSupported names for it (every kind where the arm names none).
ListedKinds(kind) ==
  CASE kind \in {"AddNodeKind", "SubNodeKind", "MulNodeKind", "MaxNodeKind",
                 "MinNodeKind", "PowNodeKind", "MatMulNodeKind"} ->
         [in |-> [LHS |-> KMath, RHS |-> KMath], out |-> [Result |-> KMath]]
    [] kind \in {"ReluNodeKind", "ReplaceNaNNodeKind", "TanhNodeKind", "LogNodeKind",
                 "LocalResponseNormalizationNodeKind", "SigmoidNodeKind",
                 "ExpNodeKind", "SpaceToDepthNodeKind"} ->
         [in |-> [Input |-> KMath], out |-> [Result |-> KMath]]
    [] kind \in {"BatchedReduceAddNodeKind", "BatchedReduceMeanNodeKind",
                 "BatchedReduceMinNodeKind"} ->
         [in |-> [Batch |-> KMath], out |-> [Result |-> KMath]]
    [] kind = "BatchedAddNodeKind" ->
         [in |-> [Batch |-> KMath, Slice |-> KMath], out |-> [Result |-> KMath]]
    [] kind = "SplatNodeKind" -> [in |-> <<>>, out |-> [Result |-> KMath]]
    [] kind = "LayerNormalizationNodeKind" ->
         [in |-> [Input |-> KFloatQ, Scale |-> KFloatQ, Bias |-> KFloatQ],
          out |-> [Result |-> KFloatQ]]
    [] kind = "BatchNormalizationNodeKind" ->
         [in |-> [Input |-> KFloatQ, Scale |-> KFloatQ, Bias |-> KFloatQ,
                  Mean |-> KFloatQ, Var |-> KFloatQ],
          out |-> [Result |-> KFloatQ]]
    [] kind \in {"AvgPoolNodeKind", "AdaptiveAvgPoolNodeKind"} ->
         [in |-> [Input |-> KFloatQ], out |-> [Result |-> KFloatQ]]
    [] kind = "BatchMatMulNodeKind" ->
         [in |-> [LHS |-> KLow, RHS |-> KLow], out |-> [Result |-> KLow]]
    [] kind = "PReluNodeKind" ->
         [in |-> [Input |-> KLow, Slope |-> KLow], out |-> [Result |-> KLow]]
    [] kind = "ClipNodeKind" -> [in |-> [Input |-> KLow], out |-> [Result |-> KLow]]
    [] kind = "DivNodeKind" ->
         [in |-> [LHS |-> KDiv, RHS |-> KDiv], out |-> [Result |-> KDiv]]
    [] kind = "SaveNodeKind" -> [in |-> [Input |-> KData, Output |-> KData], out |-> <<>>]
    [] kind = "ConcatNodeKind" ->
         [in |-> [Input0 |-> KData, Input1 |-> KData], out |-> [Result |-> KData]]
    [] kind \in {"TileNodeKind", "TransposeNodeKind"} ->
         [in |-> [Input |-> KData], out |-> [Result |-> KData]]
    [] kind \in {"ConvolutionNodeKind", "Convolution3DNodeKind"} ->
         [in |-> [Input |-> KFloatQ, Filter |-> KFloatQ, Bias |-> KBias],
          out |-> [Result |-> KFloatQ]]
    [] kind = "QuantizeNodeKind" ->
         [in |-> [Input |-> KFloat], out |-> [Result |-> {"Int8QTy"}]]
    [] kind = "DequantizeNodeKind" ->
         [in |-> [Input |-> {"Int8QTy"}], out |-> [Result |-> KFloat]]
    [] kind = "RescaleQuantizedNodeKind" ->
         [in |-> [Input |-> {"Int8QTy"}], out |-> [Result |-> {"Int8QTy"}]]
    [] kind = "ConvertToNodeKind" ->
         [in |-> [Input |-> KFloat \cup KIndex], out |-> [Result |-> KFloat \cup KIndex]]
    [] kind = "FullyConnectedNodeKind" ->
         [in |-> [Input |-> KFloatQ, Weights |-> KFloatQ, Bias |-> KBias],
          out |-> [Result |-> KFloatQ]]
    [] kind = "MaxPoolNodeKind" ->
         [in |-> [Input |-> KFloatQ],
          out |-> [Result |-> KFloatQ, Argmax |-> {"Int64ITy"}]]
    [] kind = "TopKNodeKind" ->
         [in |-> [Input |-> KFloatQ],
          out |-> [Values |-> KFloatQ, Indices |-> {"Int64ITy"}]]
    [] kind = "GatherNodeKind" ->
         [in |-> [Data |-> KDiv, Indices |-> KIndex], out |-> [Result |-> KDiv]]
    [] kind = "GatherRangesNodeKind" ->
         [in |-> [Data |-> KMath, Ranges |-> KIndex],
          out |-> [Output |-> KMath, Lengths |-> KIndex]]
    [] kind \in {"SliceNodeKind", "ReshapeNodeKind"} ->
         [in |-> [Input |-> KDiv], out |-> [Result |-> KDiv]]
    [] kind \in CmpKinds ->
         [in |-> [LHS |-> KMath, RHS |-> KMath], out |-> [Result |-> {"BoolTy"}]]
    [] kind = "SelectNodeKind" ->
         [in |-> [Cond |-> {"BoolTy"}, LHS |-> KFloatQ, RHS |-> KFloatQ],
          out |-> [Result |-> KFloatQ]]
    [] kind = "RowwiseQuantizedFullyConnectedNodeKind" ->
         [in |-> [Input |-> {"Int8QTy"}, Weights |-> {"Int8QTy"}, Scales |-> {"FloatTy"},
                  Offsets |-> {"Int32ITy"}, Bias |-> {"Int32QTy", "FloatTy"}],
          out |-> [Result |-> {"Int8QTy"}]]
    [] kind = "ChannelwiseQuantizedConvolutionNodeKind" ->
         [in |-> [Input |-> {"Int8QTy"}, Filter |-> {"Int8QTy"},
                  Bias |-> {"Int32QTy", "FloatTy"}, FilterScales |-> {"FloatTy"},
                  FilterOffsets |-> {"Int32ITy"}],
          out |-> [Result |-> {"Int8QTy"}]]
    [] kind = "SparseLengthsSumNodeKind" ->
         [in |-> [Data |-> KFloatQ, Indices |-> KIndex, Lengths |-> {"Int32ITy"}],
          out |-> [Result |-> KFloatQ]]
    [] kind = "SparseLengthsWeightedSumNodeKind" ->
         [in |-> [Data |-> KFloatQ, Weights |-> KFloatQ, Indices |-> KIndex,
                  Lengths |-> {"Int32ITy"}],
          out |-> [Result |-> KFloatQ]]
    [] kind = "EmbeddingBagNodeKind" ->
         [in |-> [Data |-> KFloatQ, Weights |-> KFloatQ, Indices |-> {"Int64ITy"},
                  Offsets |-> {"Int64ITy"}],
          out |-> [Result |-> KFloatQ]]
    [] kind = "EmbeddingBagByteRowwiseOffsetsNodeKind" ->
         [in |-> [Data |-> FusedDataKinds, Weights |-> ElemKinds,
                  Indices |-> {"Int64ITy"}, Offsets |-> {"Int64ITy"}],
          out |-> [Result |-> KFloat]]
    [] kind = "FusedRowwiseQuantizedSparseLengthsSumNodeKind" ->
         [in |-> [Data |-> FusedDataKinds, Indices |-> KIndex, Lengths |-> {"Int32ITy"}],
          out |-> [Result |-> KFloat]]
    [] kind = "FusedRowwiseQuantizedSparseLengthsWeightedSumNodeKind" ->
         [in |-> [Data |-> FusedDataKinds, Weights |-> KFloat, Indices |-> KIndex,
                  Lengths |-> {"Int32ITy"}],
          out |-> [Result |-> KFloat]]
    [] kind = "RowwiseQuantizedSparseLengthsWeightedSumNodeKind" ->
         [in |-> [Data |-> {"UInt8QTy"}, Scales |-> KFloat, Offsets |-> KFloat,
                  Weights |-> KFloat, Indices |-> KIndex, Lengths |-> {"Int32ITy"}],
          out |-> [Result |-> KFloat]]
    [] kind = "SparseToDenseNodeKind" ->
         [in |-> [Indices |-> {"Int64ITy"}, Values |-> {"FloatTy"},
                  DataToInferDim |-> {"FloatTy"}],
          out |-> [Result |-> {"FloatTy"}]]
    [] kind = "SoftMaxNodeKind" ->
         [in |-> [Input |-> KFloatQ, Selected |-> {"Int64ITy"}],
          out |-> [Result |-> KFloatQ]]
    [] kind = "LengthsRangeFillNodeKind" ->
         [in |-> [Lengths |-> {"Int32ITy"}], out |-> [Result |-> {"Int32ITy"}]]
    [] kind = "BatchOneHotNodeKind" ->
         [in |-> [Data |-> KMath, Lengths |-> {"Int32ITy"}, Values |-> KMath],
          out |-> [Result |-> KMath]]
    [] kind \in CustomKinds ->
         [in |-> [Input |-> ElemKinds], out |-> [Result |-> ElemKinds]]
    [] kind = "ArgMaxNodeKind" ->
         [in |-> [Input |-> ElemKinds], out |-> [Result |-> {"Int64ITy"}]]
    [] kind = "LogitNodeKind" -> [in |-> [Input |-> KFloat], out |-> [Result |-> KFloat]]
    [] OTHER -> [in |-> [Input |-> ElemKinds], out |-> [Result |-> ElemKinds]]

\* The shapes tried for an input or output.
DimsChoices(kind, pos) ==
  IF pos = "Indices" /\ kind \in SLSFamilyKinds \cup {"GatherNodeKind"}
  THEN {<<MaxSLSIndices - 1>>, <<MaxSLSIndices>>, <<256, 256>>}
  ELSE IF pos = "Ranges"
  THEN {<<2, 2, 2>>, <<1, 32768, 2>>}
  ELSE IF pos = "Data" /\ kind \in {"SparseLengthsSumNodeKind",
                                    "SparseLengthsWeightedSumNodeKind"}
  THEN {<<4, 1>>, <<4, 2>>, <<4, 1, 1>>}
  ELSE {<<2, 2>>}

TypesAt(kind, listed, pos) ==
  {[elem |-> e, dims |-> d] : e \in listed[pos], d \in DimsChoices(kind, pos)}

\* Every assignment of a type to the positions dom.
RECURSIVE TypeAssignments(_, _, _)
TypeAssignments(kind, listed, dom) ==
  IF dom = {} THEN {<<>>}
  ELSE LET pos == CHOOSE x \in dom : TRUE
       IN {(pos :> t) @@ rest : t \in TypesAt(kind, listed, pos),
                                rest \in TypeAssignments(kind, listed, dom \ {pos})}

NodeInfosOf(kind) ==
  LET sig == ListedKinds(kind)
  IN {[kind |-> kind, inTy |-> i, outTy |-> o] :
        i \in TypeAssignments(kind, sig.in, DOMAIN sig.in),
        o \in TypeAssignments(kind, sig.out, DOMAIN sig.out)}

IdleBind ==
  /\ dagSize = 0
  /\ children = <<>>
  /\ backendName = <<>>
  /\ bindings = <<>>
  /\ InitBindLocals

InitOracle ==
  /\ ni \in UNION {NodeInfosOf(kind) : kind \in NodeKinds}
  /\ GlowNNPIAcceptUnarySLS = FALSE
  /\ GlowNNPILowerAllBatchMatMul = FALSE
  /\ inferOnDevice = FALSE
  /\ supportedSeen = {}
  /\ acceptSeen = {}
  /\ IdleLower
  /\ IdleBind
  /\ IdlePlan
  /\ IdleFusion

\* A call of NNPIBackend::isOpSupported on the node.
CallIsOpSupported ==
  /\ supportedSeen' = supportedSeen \cup {<<GlowNNPIAcceptUnarySLS, isOpSupported(ni)>>}
  /\ UNCHANGED <<ni, GlowNNPIAcceptUnarySLS, GlowNNPILowerAllBatchMatMul, inferOnDevice,
                 acceptSeen>>
  /\ UNCHANGED varsNotOracle

\* A call of NNPIBackend::acceptForExecution on the node.
CallAcceptForExecution ==
  /\ acceptSeen' = acceptSeen \cup {<<GlowNNPIAcceptUnarySLS, acceptForExecution(ni)>>}
  /\ UNCHANGED <<ni, GlowNNPIAcceptUnarySLS, GlowNNPILowerAllBatchMatMul, inferOnDevice,
                 supportedSeen>>
  /\ UNCHANGED varsNotOracle

\* The process-wide flags take another value (command line, test set-up).
SetAcceptUnarySLS ==
  /\ GlowNNPIAcceptUnarySLS' = ~GlowNNPIAcceptUnarySLS
  /\ UNCHANGED <<ni, GlowNNPILowerAllBatchMatMul, inferOnDevice, supportedSeen, acceptSeen>>
  /\ UNCHANGED varsNotOracle

SetLowerAllBatchMatMul ==
  /\ GlowNNPILowerAllBatchMatMul' = ~GlowNNPILowerAllBatchMatMul
  /\ UNCHANGED <<ni, GlowNNPIAcceptUnarySLS, inferOnDevice, supportedSeen, acceptSeen>>
  /\ UNCHANGED varsNotOracle

SetInferOnDevice ==
  /\ inferOnDevice' = ~inferOnDevice
  /\ UNCHANGED <<ni, GlowNNPIAcceptUnarySLS, GlowNNPILowerAllBatchMatMul, supportedSeen,
                 acceptSeen>>
  /\ UNCHANGED varsNotOracle

SpecOracle ==
  InitOracle /\ [][CallIsOpSupported \/ CallAcceptForExecution \/ SetAcceptUnarySLS
                     \/ SetLowerAllBatchMatMul \/ SetInferOnDevice]_vars

\* ------------------------------------------------------------------------
\* Lowering policy
\* ------------------------------------------------------------------------
\* ---- NNPIBackend::shouldLower
\* sameAsFC is what isConvolutionSameAsFullyConnected answers for the node; iceT
\* and onDevice are backendOptions_.useIceT and backendOptions_.inferOnDevice.
NeverLoweredKinds ==
  {"FullyConnectedNodeKind", "ConcatNodeKind", "SigmoidNodeKind", "TanhNodeKind",
   "ReluNodeKind", "Convolution3DNodeKind", "TileNodeKind", "LogNodeKind",
   "ReplaceNaNNodeKind", "LocalResponseNormalizationNodeKind",
   "BatchedReduceMeanNodeKind", "BatchedReduceMinNodeKind", "BatchMatMulNodeKind",
   "BatchNormalizationNodeKind", "ChannelwiseQuantizedConvolutionNodeKind",
   "AdaptiveAvgPoolNodeKind", "EmbeddingBagNodeKind",
   "EmbeddingBagByteRowwiseOffsetsNodeKind", "LayerNormalizationNodeKind",
   "FusedRowwiseQuantizedSparseLengthsSumNodeKind", "PReluNodeKind"}

shouldLowerLogitUnlessFloat(N, sameAsFC, iceT, onDevice) ==
  CASE N.kind = "ClipNodeKind" ->
         getOutElemTy(N, "Result") \notin {"Float16Ty", "Int8QTy"}
    [] N.kind = "ConvolutionNodeKind" -> sameAsFC
    [] N.kind \in NeverLoweredKinds -> FALSE
    [] N.kind = "SparseLengthsSumNodeKind" -> iceT \/ onDevice
    [] N.kind = "LogitNodeKind" ->
         ~allInputsAndOutputsHaveSameElemKind(N, {"FloatTy"}, {}, {})
    [] OTHER -> TRUE

shouldLowerWithoutDeviceFlag(N, sameAsFC, iceT, onDevice) ==
  CASE N.kind = "ClipNodeKind" ->
         getOutElemTy(N, "Result") \notin {"Float16Ty", "Int8QTy"}
    [] N.kind = "ConvolutionNodeKind" -> sameAsFC
    [] N.kind \in NeverLoweredKinds -> FALSE
    [] N.kind = "SparseLengthsSumNodeKind" -> iceT
    [] N.kind = "LogitNodeKind" ->
         allInputsAndOutputsHaveSameElemKind(N, {"FloatTy"}, {}, {})
    [] OTHER -> TRUE

shouldLower(N, sameAsFC, iceT, onDevice) ==
  CASE N.kind = "ClipNodeKind" ->
         getOutElemTy(N, "Result") \notin {"Float16Ty", "Int8QTy"}
    [] N.kind = "ConvolutionNodeKind" -> sameAsFC
    [] N.kind \in NeverLoweredKinds -> FALSE
    [] N.kind = "SparseLengthsSumNodeKind" -> iceT \/ onDevice
    [] N.kind = "LogitNodeKind" ->
         allInputsAndOutputsHaveSameElemKind(N, {"FloatTy"}, {}, {})
    [] OTHER -> TRUE

\* The nodes tried: every kind of the oracle, with one input and one result of
\* the element kinds shouldLower tells apart and one it does not.
InitLower ==
  /\ ni \in {[kind |-> kind,
              inTy |-> [Input |-> [elem |-> i, dims |-> <<2, 2>>]],
              outTy |-> [Result |-> [elem |-> o, dims |-> <<2, 2>>]]] :
               kind \in NodeKinds,
               i \in {"FloatTy", "Float16Ty", "Int8QTy", "Int32ITy", "BoolTy"},
               o \in {"FloatTy", "Float16Ty", "Int8QTy", "Int32ITy"}}
  /\ GlowNNPIAcceptUnarySLS = FALSE
  /\ GlowNNPILowerAllBatchMatMul = FALSE
  /\ inferOnDevice = FALSE
  /\ supportedSeen = {}
  /\ acceptSeen = {}
  /\ IdleLower
  /\ IdleBind
  /\ IdlePlan
  /\ IdleFusion

\* A call of NNPIBackend::shouldLower on the node.
CallShouldLower ==
  /\ \E sameAsFC \in BOOLEAN :
       lowerSeen' = [called |-> TRUE, sameAsFC |-> sameAsFC, useIceT |-> useIceT,
                     inferOnDevice |-> inferOnDevice,
                     verdict |-> shouldLower(ni, sameAsFC, useIceT, inferOnDevice)]
  /\ UNCHANGED <<varsBind, varsOracle, useIceT, requiredSeen, varsPlan, varsPipe,
                 varsFusion>>

SetUseIceT ==
  /\ useIceT' = ~useIceT
  /\ UNCHANGED <<varsBind, varsOracle, lowerSeen, requiredSeen, varsPlan, varsPipe,
                 varsFusion>>

\* Faulty lowerRequiredNodes: an all-float BatchMatMul is the one left alone.
CallLowerRequiredNodesKeepFloat ==
  /\ LET lowered ==
           CASE ni.kind = "BatchMatMulNodeKind" ->
                  \/ GlowNNPILowerAllBatchMatMul
                  \/ ~allInputsAndOutputsHaveSameElemKind(ni, {"FloatTy"}, {}, {})
             [] ni.kind \in {"FusedRowwiseQuantizedSparseLengthsSumNodeKind",
                             "PReluNodeKind"} ->
                  ni.outTy.Result.elem # "Float16Ty"
             [] ni.kind = "ConvertToNodeKind" ->
                  /\ ni.outTy.Result.elem \in {"FloatTy", "Float16Ty"}
                  /\ ni.inTy.Input.elem = "BoolTy"
             [] OTHER -> FALSE
     IN requiredSeen' = [called |-> TRUE, lowerAllBMM |-> GlowNNPILowerAllBatchMatMul,
                         changed |-> lowered]
  /\ UNCHANGED <<varsBind, varsOracle, useIceT, lowerSeen, varsPlan, varsPipe, varsFusion>>

\* A call of lowerRequiredNodes on a function holding the node alone; changed
\* is true exactly when the node was lowered or replaced. A BatchMatMul is
\* skipped when the flag is unset and it is not all FloatTy.
CallLowerRequiredNodes ==
  /\ LET lowered ==
           CASE ni.kind = "BatchMatMulNodeKind" ->
                  ~(/\ ~GlowNNPILowerAllBatchMatMul
                    /\ ~allInputsAndOutputsHaveSameElemKind(ni, {"FloatTy"}, {}, {}))
             [] ni.kind \in {"FusedRowwiseQuantizedSparseLengthsSumNodeKind",
                             "PReluNodeKind"} ->
                  ni.outTy.Result.elem # "Float16Ty"
             [] ni.kind = "ConvertToNodeKind" ->
                  /\ ni.outTy.Result.elem \in {"FloatTy", "Float16Ty"}
                  /\ ni.inTy.Input.elem = "BoolTy"
             [] OTHER -> FALSE
     IN requiredSeen' = [called |-> TRUE, lowerAllBMM |-> GlowNNPILowerAllBatchMatMul,
                         changed |-> lowered]
  /\ UNCHANGED <<varsBind, varsOracle, useIceT, lowerSeen, varsPlan, varsPipe, varsFusion>>

SpecLower ==
  InitLower /\ [][CallShouldLower \/ SetUseIceT \/ SetInferOnDevice
                    \/ CallLowerRequiredNodes \/ SetLowerAllBatchMatMul]_vars

\* ------------------------------------------------------------------------
\* Parallelization Planner, directive mode
\* ------------------------------------------------------------------------
parallelTransformKindKey == "parallelTransformKind"

numParallelChunksKey == "numParallelChunks"

coreAssignmentsKey == "coreAssignments"

PlacementKeys ==
  {coreAssignmentsKey, "coreAssignmentsSuffix", "extraEdgesTargetName",
   "extraEdgesTargetSuffix", "extraEdgesSourceSuffix"}

\* Strings that get parsed are sequences of characters.
Digits == <<"0", "1", "2", "3", "4", "5", "6", "7", "8", "9">>

IsDigit(c) == \E d \in DOMAIN Digits : Digits[d] = c

DigitValue(c) == (CHOOSE d \in DOMAIN Digits : Digits[d] = c) - 1

RECURSIVE SkipSpaces(_, _)
SkipSpaces(str, i) ==
  IF i <= Len(str) /\ str[i] = " " THEN SkipSpaces(str, i + 1) ELSE i

RECURSIVE ScanDigits(_, _, _)
ScanDigits(str, i, acc) ==
  IF i <= Len(str) /\ IsDigit(str[i])
  THEN ScanDigits(str, i + 1, acc * Len(Digits) + DigitValue(str[i]))
  ELSE [end |-> i, val |-> acc]

\* strtol(str, &end, 10): leading blanks, an optional sign, then digits; end is
\* the position after the last digit, or the start when there is no digit.
strtol(str) ==
  LET start == SkipSpaces(str, 1)
      signed == start <= Len(str) /\ str[start] \in {"+", "-"}
      first == IF signed THEN start + 1 ELSE start
      scan == ScanDigits(str, first, 0)
  IN IF scan.end = first THEN [end |-> 1, val |-> 0]
     ELSE [end |-> scan.end,
           val |-> IF signed /\ str[start] = "-" THEN 0 - scan.val ELSE scan.val]

\* getIntFromStr: an error unless strtol converted something and consumed the
\* whole string.
getIntFromStr(str) ==
  LET r == strtol(str)
  IN IF r.end = 1 \/ r.end # Len(str) + 1
     THEN [ok |-> FALSE, val |-> 0]
     ELSE [ok |-> TRUE, val |-> r.val]

\* ---- the annotations tried
KindValues ==
  {<<"Data">>, <<"Model">>, <<"None">>, <<"Pipeline">>, <<"Data", "Model">>}

ChunkStrings == {<<"2">>, <<"3">>, <<"1">>, <<"-", "2">>, <<"2", "x">>}

ChunkValues == {<<str>> : str \in ChunkStrings} \cup {<<(<<"2">>), (<<"3">>)>>}

KindPart == {<<>>} \cup {(parallelTransformKindKey :> v) : v \in KindValues}

ChunkPart == {<<>>} \cup {(numParallelChunksKey :> v) : v \in ChunkValues}

\* Every combination of transform-kind and chunk-count annotations, and a
\* placement hint on its own, beside a lone chunk-count or beside a directive.
AnnotationMaps ==
  {k @@ c : k \in KindPart, c \in ChunkPart}
    \cup {(coreAssignmentsKey :> <<(<<"0">>)>>) @@ k @@ c :
            k \in {<<>>, (parallelTransformKindKey :> <<"Data">>)},
            c \in {<<>>, (numParallelChunksKey :> <<(<<"2">>)>>)}}

InitPlan ==
  /\ fnSize \in 0 .. MaxFnNodes
  /\ hasFunInfo \in BOOLEAN
  /\ \E annotated \in SUBSET (1 .. fnSize) :
       /\ (~hasFunInfo => annotated = {})
       /\ funInfo \in [annotated -> AnnotationMaps]
  /\ InitPlanLocals
  /\ IdlePipe
  /\ IdleBind
  /\ IdleOracle
  /\ IdleLower
  /\ IdleFusion

\* ---- setupPerNodeParallelizationConfigs, one node
\* Faulty check: a chunk-count of 1 is let through.
ChunkCountAtLeastOne(n) == n >= 1

ChunkCountAccepted(n) == n > 1

\* Faulty parse: an unrecognized transform-kind is taken for "None".
ParallelKindOfLenient(pKindStr) ==
  IF pKindStr = "Data" THEN "Data"
  ELSE IF pKindStr = "Model" THEN "Model"
  ELSE "None"

ParallelKindOf(pKindStr) ==
  IF pKindStr = "Data" THEN "Data"
  ELSE IF pKindStr = "Model" THEN "Model"
  ELSE IF pKindStr = "None" THEN "None"
  ELSE "unsupported"

SkipNode == [act |-> "skip", pKind |-> "None", chunks |-> 0]

SetupError == [act |-> "error", pKind |-> "None", chunks |-> 0]

\* What the body of the loop does with the node: leaves it out ("skip"), fails
\* ("error"), or records a directive ("plan").
setupPerNodeParallelizationConfig(currFunInfo, node) ==
  IF node \notin DOMAIN currFunInfo THEN SkipNode
  ELSE LET nodeInfo == currFunInfo[node]
       IN IF parallelTransformKindKey \notin DOMAIN nodeInfo THEN SkipNode
          ELSE IF Len(nodeInfo[parallelTransformKindKey]) # 1 THEN SetupError
          ELSE LET pKind == ParallelKindOf(nodeInfo[parallelTransformKindKey][1])
               IN IF pKind = "unsupported" THEN SetupError
                  ELSE IF pKind = "None" THEN SkipNode
                  ELSE IF numParallelChunksKey \notin DOMAIN nodeInfo THEN SetupError
                  ELSE IF Len(nodeInfo[numParallelChunksKey]) # 1 THEN SetupError
                  ELSE LET parsed == getIntFromStr(nodeInfo[numParallelChunksKey][1])
                       IN IF ~parsed.ok THEN SetupError
                          ELSE IF ~ChunkCountAccepted(parsed.val) THEN SetupError
                          ELSE [act |-> "plan", pKind |-> pKind, chunks |-> parsed.val]

\* ---- parallelizeOps: which nodes it replaced, and by what
ConcatNodes(node) ==
  [inputs : {numChunks[node], numChunks[node] - 1}, users : {0, 1}]

\* It replaces the planned nodes, or all of them but one it cannot split; a
\* replacement has the requested number of branches or one less, and the
\* replaced node has no user left or still one.
ParallelizeOpsResults ==
  LET planned == DOMAIN numChunks
      replacedSets == {planned} \cup {planned \ {n} : n \in planned}
  IN UNION {{r \in [S -> UNION {ConcatNodes(n) : n \in S}] :
               \A n \in S : r[n] \in ConcatNodes(n)} : S \in replacedSets}

\* ---- validateBackendSpecificNodeInfo
Erase(currFunInfo, node) == [n \in (DOMAIN currFunInfo) \ {node} |-> currFunInfo[n]]

\* The loop over replacedMap, visiting it in the given order, from position i.
\* Faulty loop: the number of branches of the ConcatNode is not compared.
RECURSIVE validateReplacedAnyBranchCount(_, _, _)
validateReplacedAnyBranchCount(order, i, currFunInfo) ==
  IF i > Len(order) THEN [err |-> FALSE, info |-> currFunInfo]
  ELSE IF replacedMap[order[i]].users # 0 \/ order[i] \notin DOMAIN currFunInfo
  THEN [err |-> TRUE, info |-> currFunInfo]
  ELSE validateReplacedAnyBranchCount(order, i + 1, Erase(currFunInfo, order[i]))

RECURSIVE validateReplaced(_, _, _)
validateReplaced(order, i, currFunInfo) ==
  IF i > Len(order) THEN [err |-> FALSE, info |-> currFunInfo]
  ELSE LET replacedNode == order[i]
           CN == replacedMap[replacedNode]
           failed == [err |-> TRUE, info |-> currFunInfo]
       IN IF CN.users # 0 THEN failed
          ELSE IF replacedNode \notin DOMAIN currFunInfo THEN failed
          ELSE LET nodeInfo == currFunInfo[replacedNode]
               IN IF numParallelChunksKey \notin DOMAIN nodeInfo THEN failed
                  ELSE IF Len(nodeInfo[numParallelChunksKey]) # 1 THEN failed
                  ELSE LET parsed == getIntFromStr(nodeInfo[numParallelChunksKey][1])
                       IN IF ~parsed.ok THEN failed
                          ELSE IF parsed.val # CN.inputs THEN failed
                          ELSE validateReplaced(order, i + 1,
                                                Erase(currFunInfo, replacedNode))

\* The scan of the remaining nodes: no planning or placement key may be left.
\* Faulty scan: placement keys are not looked for.
ResidualKeyLeftPlanningOnly(currFunInfo) ==
  \E node \in DOMAIN currFunInfo :
    \E key \in {parallelTransformKindKey, numParallelChunksKey} :
      key \in DOMAIN currFunInfo[node]

ResidualKeyLeft(currFunInfo) ==
  \E node \in DOMAIN currFunInfo :
    \E key \in {parallelTransformKindKey, numParallelChunksKey} \cup PlacementKeys :
      key \in DOMAIN currFunInfo[node]

validateBackendSpecificNodeInfo(order) ==
  LET looped == validateReplaced(order, 1, funInfo)
  IN IF looped.err THEN looped
     ELSE [err |-> ResidualKeyLeft(looped.info), info |-> looped.info]

\* ---- setupBasicParallelizationConfigs
NNPINumParallelChunksKey == "NNPINumParallelChunks"

\* The early exit of heuristic mode.
NothingToParallelizeBelowOne(defaultNumParallelChunks) == defaultNumParallelChunks < 1

NothingToParallelize(defaultNumParallelChunks) == defaultNumParallelChunks <= 1

\* Faulty loops, one fault at a time: "dataFirst" tests the batch dimension
\* of an FC before its weights, "reluData" plans every Relu as after a node
\* that is not an FC, "clipData" plans a Clip Data-wise instead of copying.
RECURSIVE setupBasicFaulty(_, _, _, _)
setupBasicFaulty(cfg, i, numParallelChunks, fault) ==
  IF i > fnSize
  THEN cfg
  ELSE
    LET node == fnNodes[i]
        planned(n) == n \in DOMAIN cfg.numChunks /\ n \in DOMAIN cfg.parOpts
        split(kind, chunks) == [numChunks |-> (i :> chunks) @@ cfg.numChunks,
                                parOpts |-> (i :> kind) @@ cfg.parOpts]
        after ==
          CASE node.kind = "FullyConnectedNodeKind" ->
                 IF fault = "dataFirst" /\ node.inDims[1] >= 256
                 THEN split("Data", numParallelChunks)
                 ELSE IF node.K >= 512 THEN split("Model", numParallelChunks)
                 ELSE IF node.inDims[1] >= 256 THEN split("Data", numParallelChunks)
                 ELSE cfg
            [] node.kind = "ReluNodeKind" ->
                 IF node.input = NullNode
                    \/ fnNodes[node.input].kind # "FullyConnectedNodeKind"
                    \/ fault = "reluData"
                 THEN IF planned(node.input)
                      THEN split("Data", numParallelChunks)
                      ELSE cfg
                 ELSE IF Len(node.inDims) < 2 THEN cfg
                 ELSE IF node.inDims[2] >= 512 THEN split("Model", numParallelChunks)
                 ELSE IF node.inDims[1] >= 256 THEN split("Data", numParallelChunks)
                 ELSE cfg
            [] node.kind \in {"TransposeNodeKind", "QuantizeNodeKind",
                              "DequantizeNodeKind", "BatchMatMulNodeKind"} ->
                 split("Data", numParallelChunks)
            [] node.kind \in {"TanhNodeKind", "MulNodeKind"} ->
                 IF Len(node.inDims) < 2 THEN cfg
                 ELSE IF node.inDims[2] < 4096 THEN cfg
                 ELSE split("Data", numParallelChunks)
            [] node.kind = "ClipNodeKind" ->
                 IF planned(node.input)
                 THEN IF fault = "clipData"
                      THEN split("Data", cfg.numChunks[node.input])
                      ELSE split(cfg.parOpts[node.input], cfg.numChunks[node.input])
                 ELSE cfg
            [] OTHER -> cfg
    IN setupBasicFaulty(after, i + 1, numParallelChunks, fault)

setupBasicDataFirst(cfg, i, numParallelChunks) ==
  setupBasicFaulty(cfg, i, numParallelChunks, "dataFirst")

setupBasicReluData(cfg, i, numParallelChunks) ==
  setupBasicFaulty(cfg, i, numParallelChunks, "reluData")

setupBasicClipData(cfg, i, numParallelChunks) ==
  setupBasicFaulty(cfg, i, numParallelChunks, "clipData")

\* The loop of setupBasicParallelizationConfigs from node i on; cfg holds the two
\* maps. A node of F is [kind, input, inDims, K]: input is the node its first
\* operand comes from (NullNode for a Placeholder or Constant), inDims the shape
\* of that operand, K the second dimension of the weights of an FC. The nodes
\* are numbered in post order.
RECURSIVE setupBasicParallelizationConfigs(_, _, _)
setupBasicParallelizationConfigs(cfg, i, numParallelChunks) ==
  IF i > fnSize
  THEN cfg
  ELSE
    LET node == fnNodes[i]
        planned(n) == n \in DOMAIN cfg.numChunks /\ n \in DOMAIN cfg.parOpts
        split(kind, chunks) == [numChunks |-> (i :> chunks) @@ cfg.numChunks,
                                parOpts |-> (i :> kind) @@ cfg.parOpts]
        after ==
          CASE node.kind = "FullyConnectedNodeKind" ->
                 IF node.K >= 512 THEN split("Model", numParallelChunks)
                 ELSE IF node.inDims[1] >= 256 THEN split("Data", numParallelChunks)
                 ELSE cfg
            [] node.kind = "ReluNodeKind" ->
                 IF node.input = NullNode
                    \/ fnNodes[node.input].kind # "FullyConnectedNodeKind"
                 THEN IF planned(node.input)
                      THEN split("Data", numParallelChunks)
                      ELSE cfg
                 ELSE IF Len(node.inDims) < 2 THEN cfg
                 ELSE IF node.inDims[2] >= 512 THEN split("Model", numParallelChunks)
                 ELSE IF node.inDims[1] >= 256 THEN split("Data", numParallelChunks)
                 ELSE cfg
            [] node.kind \in {"TransposeNodeKind", "QuantizeNodeKind",
                              "DequantizeNodeKind", "BatchMatMulNodeKind"} ->
                 split("Data", numParallelChunks)
            [] node.kind \in {"TanhNodeKind", "MulNodeKind"} ->
                 IF Len(node.inDims) < 2 THEN cfg
                 ELSE IF node.inDims[2] < 4096 THEN cfg
                 ELSE split("Data", numParallelChunks)
            [] node.kind = "ClipNodeKind" ->
                 IF planned(node.input)
                 THEN split(cfg.parOpts[node.input], cfg.numChunks[node.input])
                 ELSE cfg
            [] OTHER -> cfg
    IN setupBasicParallelizationConfigs(after, i + 1, numParallelChunks)

\* Faulty entry of heuristic mode: the backend option is read whenever it is
\* present, also when the flag is set.
ParallelizeBeginOptionFirst ==
  /\ planPc = "idle"
  /\ phase \in {"call", "postLowering", "compile"}
  /\ IF usePerNodeParallelizationSpec
     THEN /\ IF ~hasFunInfo
             THEN /\ planPc' = "done"
                  /\ planResult' = "false"
                  /\ UNCHANGED planIdx
             ELSE /\ planPc' = "setup"
                  /\ planIdx' = 1
                  /\ UNCHANGED planResult
          /\ UNCHANGED <<numChunks, parOpts>>
     ELSE LET fromOpts == NNPINumParallelChunksKey \in DOMAIN backendSpecificOpts
              parsed == getIntFromStr(backendSpecificOpts[NNPINumParallelChunksKey])
              defaultNumParallelChunks ==
                IF fromOpts THEN parsed.val ELSE GlowNNPINumParallelChunks
          IN IF fromOpts /\ ~parsed.ok
             THEN /\ planPc' = "done"
                  /\ planResult' = "error"
                  /\ UNCHANGED <<planIdx, numChunks, parOpts>>
             ELSE IF NothingToParallelize(defaultNumParallelChunks)
             THEN /\ planPc' = "done"
                  /\ planResult' = "false"
                  /\ UNCHANGED <<planIdx, numChunks, parOpts>>
             ELSE LET cfg == setupBasicParallelizationConfigs(
                               [numChunks |-> <<>>, parOpts |-> <<>>], 1,
                               defaultNumParallelChunks)
                  IN /\ numChunks' = cfg.numChunks
                     /\ parOpts' = cfg.parOpts
                     /\ planPc' = "setup"
                     /\ planIdx' = fnSize + 1
                     /\ UNCHANGED planResult
  /\ UNCHANGED <<fnSize, hasFunInfo, funInfo, replacedMap>>
  /\ UNCHANGED <<fcSplit, varsNotPlan>>

\* ---- parallelizeFunction, step by step
\* Entry: without annotations for F there is nothing to do.
\* In heuristic mode the default chunk count comes from the flag, or from the
\* backend option when the flag is 0; setupBasicParallelizationConfigs then
\* fills both maps in one go and the loop over the annotations is not entered.
ParallelizeBegin ==
  /\ planPc = "idle"
  /\ phase \in {"call", "postLowering", "compile"}
  /\ IF usePerNodeParallelizationSpec
     THEN /\ IF ~hasFunInfo
             THEN /\ planPc' = "done"
                  /\ planResult' = "false"
                  /\ UNCHANGED planIdx
             ELSE /\ planPc' = "setup"
                  /\ planIdx' = 1
                  /\ UNCHANGED planResult
          /\ UNCHANGED <<numChunks, parOpts>>
     ELSE LET fromOpts == /\ GlowNNPINumParallelChunks = 0
                          /\ NNPINumParallelChunksKey \in DOMAIN backendSpecificOpts
              parsed == getIntFromStr(backendSpecificOpts[NNPINumParallelChunksKey])
              defaultNumParallelChunks ==
                IF fromOpts THEN parsed.val ELSE GlowNNPINumParallelChunks
          IN IF fromOpts /\ ~parsed.ok
             THEN /\ planPc' = "done"
                  /\ planResult' = "error"
                  /\ UNCHANGED <<planIdx, numChunks, parOpts>>
             ELSE IF NothingToParallelize(defaultNumParallelChunks)
             THEN /\ planPc' = "done"
                  /\ planResult' = "false"
                  /\ UNCHANGED <<planIdx, numChunks, parOpts>>
             ELSE LET cfg == setupBasicParallelizationConfigs(
                               [numChunks |-> <<>>, parOpts |-> <<>>], 1,
                               defaultNumParallelChunks)
                  IN /\ numChunks' = cfg.numChunks
                     /\ parOpts' = cfg.parOpts
                     /\ planPc' = "setup"
                     /\ planIdx' = fnSize + 1
                     /\ UNCHANGED planResult
  /\ UNCHANGED <<fnSize, hasFunInfo, funInfo, replacedMap>>
  /\ UNCHANGED <<fcSplit, varsNotPlan>>

\* One iteration of the loop of setupPerNodeParallelizationConfigs.
SetupNode ==
  /\ planPc = "setup"
  /\ planIdx <= fnSize
  /\ LET got == setupPerNodeParallelizationConfig(funInfo, planIdx)
     IN CASE got.act = "error" ->
               /\ planPc' = "done"
               /\ planResult' = "error"
               /\ UNCHANGED <<planIdx, numChunks, parOpts>>
          [] got.act = "skip" ->
               /\ planIdx' = planIdx + 1
               /\ UNCHANGED <<planPc, planResult, numChunks, parOpts>>
          [] got.act = "plan" ->
               /\ numChunks' = (planIdx :> got.chunks) @@ numChunks
               /\ parOpts' = (planIdx :> got.pKind) @@ parOpts
               /\ planIdx' = planIdx + 1
               /\ UNCHANGED <<planPc, planResult>>
  /\ UNCHANGED <<fnSize, hasFunInfo, funInfo, replacedMap>>
  /\ UNCHANGED <<fcSplit, varsNotPlan>>

\* After the loop: the size check, and the early return when nothing is planned.
SetupDone ==
  /\ planPc = "setup"
  /\ planIdx > fnSize
  /\ IF Cardinality(DOMAIN numChunks) # Cardinality(DOMAIN parOpts)
     THEN planPc' = "done" /\ planResult' = "error"
     ELSE IF Cardinality(DOMAIN numChunks) = 0
     THEN planPc' = "done" /\ planResult' = "false"
     ELSE planPc' = "ops" /\ UNCHANGED planResult
  /\ UNCHANGED <<fnSize, hasFunInfo, funInfo, planIdx, numChunks, parOpts, replacedMap>>
  /\ UNCHANGED <<fcSplit, varsNotPlan>>

\* The call of parallelizeOps and the check of what it replaced.
ParallelizeOps ==
  /\ planPc = "ops"
  /\ \E failed \in BOOLEAN : \E replaced \in ParallelizeOpsResults :
       IF failed
       THEN /\ planPc' = "done"
            /\ planResult' = "error"
            /\ UNCHANGED replacedMap
       ELSE /\ replacedMap' = replaced
            /\ IF Cardinality(DOMAIN numChunks) # Cardinality(DOMAIN replaced)
               THEN planPc' = "done" /\ planResult' = "error"
               ELSE IF usePerNodeParallelizationSpec
               THEN planPc' = "validate" /\ UNCHANGED planResult
               ELSE planPc' = "done" /\ planResult' = "true"
  /\ UNCHANGED <<fnSize, hasFunInfo, funInfo, planIdx, numChunks, parOpts>>
  /\ UNCHANGED <<fcSplit, varsNotPlan>>

\* The call of validateBackendSpecificNodeInfo and the return.
ValidateRewrite ==
  /\ planPc = "validate"
  /\ \E order \in Orderings(DOMAIN replacedMap) :
       LET checked == validateBackendSpecificNodeInfo(order)
       IN /\ funInfo' = checked.info
          /\ planResult' = IF checked.err THEN "error" ELSE "true"
  /\ planPc' = "done"
  /\ UNCHANGED <<fnSize, hasFunInfo, planIdx, numChunks, parOpts, replacedMap>>
  /\ UNCHANGED <<fcSplit, varsNotPlan>>

NextPlan ==
  \/ ParallelizeBegin
  \/ SetupNode
  \/ SetupDone
  \/ ParallelizeOps
  \/ ValidateRewrite

SpecPlan == InitPlan /\ [][NextPlan]_vars

\* ------------------------------------------------------------------------
\* Parallelization Planner, heuristic mode
\*
\* One call of parallelizeFunction with usePerNodeParallelizationSpec false, on
\* a chain Placeholder -> node 1 -> ... -> node fnSize. The shapes sit on both
\* sides of the thresholds of setupBasicParallelizationConfigs (512 and 256 for
\* an FC, 4096 for Tanh); the flag and the backend option are tried unset, at
\* 1, above 1, both at once, negative and unparsable.
InitHeuristic ==
  /\ fnSize \in 1 .. MaxChainNodes
  /\ \E first \in {<<255, 64>>, <<256, 64>>} :
     \E made \in [1 .. fnSize ->
                    {[kind |-> "FullyConnectedNodeKind", K |-> 512],
                     [kind |-> "FullyConnectedNodeKind", K |-> 511],
                     [kind |-> "FullyConnectedNodeKind", K |-> 4096],
                     [kind |-> "ReluNodeKind", K |-> 0],
                     [kind |-> "SigmoidNodeKind", K |-> 0],
                     [kind |-> "TanhNodeKind", K |-> 0],
                     [kind |-> "ClipNodeKind", K |-> 0],
                     [kind |-> "TransposeNodeKind", K |-> 0]}] :
       LET RECURSIVE outDims(_)
           outDims(i) ==
             IF i = 0
             THEN first
             ELSE LET in == outDims(i - 1)
                  IN CASE made[i].kind = "FullyConnectedNodeKind" -> <<in[1], made[i].K>>
                       [] made[i].kind = "TransposeNodeKind" -> <<in[2], in[1]>>
                       [] OTHER -> in
       IN fnNodes = [i \in 1 .. fnSize |->
                       [kind |-> made[i].kind, input |-> i - 1,
                        inDims |-> outDims(i - 1), K |-> made[i].K]]
  /\ hasFunInfo = FALSE
  /\ funInfo = <<>>
  /\ \E flags \in {<<0, <<>> >>, <<0, <<"1">> >>, <<0, <<"2">> >>, <<0, <<"2", "x">> >>,
                   <<1, <<>> >>, <<2, <<>> >>, <<2, <<"3">> >>, <<-1, <<"2">> >>} :
       /\ GlowNNPINumParallelChunks = flags[1]
       /\ backendSpecificOpts = IF flags[2] = <<>>
                                THEN <<>>
                                ELSE (NNPINumParallelChunksKey :> flags[2])
  /\ GlowDisableNNPITransforms = FALSE
  /\ usePerNodeParallelizationSpec = FALSE
  /\ phase = "call"
  /\ planLog = <<>>
  /\ passesRun = <<>>
  /\ InitPlanLocals
  /\ IdleBind
  /\ IdleOracle
  /\ IdleLower
  /\ IdleFusion

\* In heuristic mode the loop over the annotations and the validation of the
\* annotations are never entered.
SpecHeuristic == InitHeuristic /\ [][ParallelizeBegin \/ SetupDone \/ ParallelizeOps]_vars

\* ------------------------------------------------------------------------
\* The Model split of a FullyConnected
\*
\* A tensor of rank 2 is the sequence of its rows. The output of the node is
\* input x weights + bias, the bias added to every row.
FullyConnected(input, weights, bias) ==
  LET RECURSIVE dot(_, _, _)
      dot(r, c, k) == IF k = 0
                      THEN 0
                      ELSE input[r][k] * weights[k][c] + dot(r, c, k - 1)
  IN [r \in 1 .. Len(input) |->
        [c \in 1 .. Len(bias) |-> dot(r, c, Len(weights)) + bias[c]]]

\* Faulty split: the weights are sliced but every chunk adds the first slice
\* of the bias.
ModelParallelFCFirstBias(input, weights, bias, numOfChunks) ==
  LET cols == Len(bias)
      chunk == (cols + numOfChunks - 1) \div numOfChunks
      lo(i) == IF (i - 1) * chunk < cols THEN (i - 1) * chunk ELSE cols
      hi(i) == IF i * chunk < cols THEN i * chunk ELSE cols
      part(i) == FullyConnected(input,
                                [k \in 1 .. Len(weights) |->
                                   SubSeq(weights[k], lo(i) + 1, hi(i))],
                                SubSeq(bias, 1, hi(i) - lo(i)))
      RECURSIVE concat(_)
      concat(i) == IF i = 0
                   THEN [r \in 1 .. Len(input) |-> <<>>]
                   ELSE [r \in 1 .. Len(input) |-> concat(i - 1)[r] \o part(i)[r]]
  IN concat(numOfChunks)

\* The rewrite of a FullyConnected planned Model-wise: numOfChunks nodes of the
\* same kind, chunk i reading the input whole and columns lo(i) + 1 .. hi(i) of
\* the weights and of the bias (the dimension the planner measures,
\* getWeights().dims()[1]), and a ConcatNode joining their outputs along that
\* dimension. The slices are disjoint, in order, and cover every column; the
\* last ones are shorter when numOfChunks does not divide the columns.
ModelParallelFC(input, weights, bias, numOfChunks) ==
  LET cols == Len(bias)
      chunk == (cols + numOfChunks - 1) \div numOfChunks
      lo(i) == IF (i - 1) * chunk < cols THEN (i - 1) * chunk ELSE cols
      hi(i) == IF i * chunk < cols THEN i * chunk ELSE cols
      part(i) == FullyConnected(input,
                                [k \in 1 .. Len(weights) |->
                                   SubSeq(weights[k], lo(i) + 1, hi(i))],
                                SubSeq(bias, lo(i) + 1, hi(i)))
      RECURSIVE concat(_)
      concat(i) == IF i = 0
                   THEN [r \in 1 .. Len(input) |-> <<>>]
                   ELSE [r \in 1 .. Len(input) |-> concat(i - 1)[r] \o part(i)[r]]
  IN concat(numOfChunks)

\* parallelizeOps on one FullyConnected planned Model-wise: the node has one or
\* two input rows of two elements, weights of two rows and up to MaxCols
\* columns, and is split into 2 .. columns chunks. out is what the node
\* computes, cat what the ConcatNode that replaces it computes.
ParallelizeFC ==
  /\ fcSplit.pc = "idle"
  /\ \E cols \in 2 .. MaxCols :
     \E numOfChunks \in 2 .. cols :
     \E input \in {<<(<<-1, 2>>)>>, <<(<<2, -1>>), (<<0, 3>>)>>} :
     \E weights \in [1 .. 2 -> [1 .. cols -> {-1, 3}]] :
     \E bias \in [1 .. cols -> {0, 5}] :
       fcSplit' = [pc |-> "split", input |-> input, weights |-> weights, bias |-> bias,
                   numOfChunks |-> numOfChunks,
                   out |-> FullyConnected(input, weights, bias),
                   cat |-> ModelParallelFC(input, weights, bias, numOfChunks)]
  /\ UNCHANGED <<fnSize, hasFunInfo, funInfo, planPc, planIdx, numChunks, parOpts,
                 replacedMap, planResult>>
  /\ UNCHANGED varsNotPlan

\* No function is being compiled or bound; the FullyConnected is chosen by the
\* step that splits it.
InitSplit == IdleBind /\ IdleNotBind

SpecSplit == InitSplit /\ [][ParallelizeFC]_vars

\* ------------------------------------------------------------------------
\* The two planning calls of one compilation
\* ------------------------------------------------------------------------
\* transformPostLowering calls parallelizeFunction in heuristic mode, compile
\* calls it in directive mode on the same function afterwards. The steps inside
\* each call are the actions of the planner above.

\* The functions tried: a chain fed by a Placeholder of one of two shapes, each
\* node an FC with wide or narrow weights, a Relu, a Clip or a Transpose; each
\* node without annotation, with a Data directive of 2 chunks or with a None
\* directive; the chunk-count flag and backend option in the combinations that
\* matter, the backend option also unparsable; the transforms disabled or not.
InitCompile ==
  /\ fnSize \in 1 .. MaxFnNodes
  /\ \E first \in {<<8, 64>>, <<256, 64>>} :
     \E made \in [1 .. fnSize ->
                    {[kind |-> "FullyConnectedNodeKind", K |-> 512],
                     [kind |-> "FullyConnectedNodeKind", K |-> 64],
                     [kind |-> "ReluNodeKind", K |-> 0],
                     [kind |-> "ClipNodeKind", K |-> 0],
                     [kind |-> "TransposeNodeKind", K |-> 0]}] :
       LET RECURSIVE outDims(_)
           outDims(i) ==
             IF i = 0
             THEN first
             ELSE LET in == outDims(i - 1)
                  IN CASE made[i].kind = "FullyConnectedNodeKind" -> <<in[1], made[i].K>>
                       [] made[i].kind = "TransposeNodeKind" -> <<in[2], in[1]>>
                       [] OTHER -> in
       IN fnNodes = [i \in 1 .. fnSize |->
                       [kind |-> made[i].kind, input |-> i - 1,
                        inDims |-> outDims(i - 1), K |-> made[i].K]]
  /\ hasFunInfo \in BOOLEAN
  /\ \E annotated \in SUBSET (1 .. fnSize) :
       /\ (~hasFunInfo => annotated = {})
       /\ funInfo \in [annotated ->
                         {(parallelTransformKindKey :> <<"Data">>)
                            @@ (numParallelChunksKey :> <<(<<"2">>)>>),
                          (parallelTransformKindKey :> <<"None">>)}]
  /\ \E flags \in {<<0, <<>> >>, <<0, <<"1">> >>, <<0, <<"2">> >>, <<0, <<"2", "x">> >>,
                   <<1, <<>> >>, <<2, <<>> >>, <<2, <<"1">> >>} :
       /\ GlowNNPINumParallelChunks = flags[1]
       /\ backendSpecificOpts = IF flags[2] = <<>>
                                THEN <<>>
                                ELSE (NNPINumParallelChunksKey :> flags[2])
       /\ GlowDisableNNPITransforms \in IF flags = <<2, <<>> >> THEN BOOLEAN ELSE {FALSE}
  /\ usePerNodeParallelizationSpec = FALSE
  /\ phase = "start"
  /\ planLog = <<>>
  /\ passesRun = <<>>
  /\ InitPlanLocals
  /\ IdleBind
  /\ IdleOracle
  /\ IdleLower
  /\ IdleFusion

\* NNPIBackend::transformPostLowering up to its call of parallelizeFunction; the
\* flag makes it return false at once. Its two other rewrites do not plan.
TransformPostLowering ==
  /\ phase = "start"
  /\ phase' = IF GlowDisableNNPITransforms THEN "postLoweringSkipped" ELSE "postLowering"
  /\ usePerNodeParallelizationSpec' = FALSE
  /\ planLog' = IF GlowDisableNNPITransforms
                THEN planLog
                ELSE Append(planLog, [perNode |-> FALSE, info |-> funInfo,
                                      result |-> "none", replaced |-> {},
                                      left |-> funInfo])
  /\ UNCHANGED <<fnNodes, GlowNNPINumParallelChunks, backendSpecificOpts,
                 GlowDisableNNPITransforms, passesRun>>
  /\ UNCHANGED <<fnSize, hasFunInfo, funInfo, planPc, planIdx, numChunks, parOpts,
                 replacedMap, planResult>>
  /\ UNCHANGED <<fcSplit, varsBind, varsOracle, varsLower, varsFusion>>

\* The return of transformPostLowering and the entry of NNPIBackend::compile.
\* planLog holds one record per call of parallelizeFunction: the mode, the
\* annotations of F at the call, what the call returned and replaced, and the
\* annotations it left.
\* An error ends the compilation. Between the two the optimizer deletes the
\* nodes the heuristic call replaced, so no loop over F->getNodes() meets their
\* annotations again.
CompileBegin ==
  /\ \/ phase = "postLowering" /\ planPc = "done"
     \/ phase = "postLoweringSkipped"
  /\ LET returned ==
           IF phase = "postLowering"
           THEN [planLog EXCEPT ![Len(planLog)].result = planResult,
                                ![Len(planLog)].replaced = DOMAIN replacedMap,
                                ![Len(planLog)].left = funInfo]
           ELSE planLog
         kept == [n \in (DOMAIN funInfo) \ (DOMAIN replacedMap) |-> funInfo[n]]
     IN IF phase = "postLowering" /\ planResult = "error"
        THEN /\ phase' = "failed"
             /\ planLog' = returned
             /\ UNCHANGED <<usePerNodeParallelizationSpec, funInfo, planPc, planIdx,
                            numChunks, parOpts, replacedMap, planResult>>
        ELSE
          /\ phase' = "compile"
          /\ planLog' = Append(returned, [perNode |-> TRUE, info |-> kept,
                                          result |-> "none", replaced |-> {},
                                          left |-> kept])
          /\ usePerNodeParallelizationSpec' = TRUE
          /\ funInfo' = kept
          /\ planPc' = "idle"
          /\ planIdx' = 0
          /\ numChunks' = <<>>
          /\ parOpts' = <<>>
          /\ replacedMap' = <<>>
          /\ planResult' = "none"
  /\ UNCHANGED <<fnNodes, GlowNNPINumParallelChunks, backendSpecificOpts,
                 GlowDisableNNPITransforms, passesRun, fnSize, hasFunInfo>>
  /\ UNCHANGED <<fcSplit, varsBind, varsOracle, varsLower, varsFusion>>

\* The passes of the FunctionPassManager "FinalizeFPM" of compile, in order.
FinalizeFPMDCEFirst == <<"DCE", "EliminateConcatSlice", "FoldSlicesIntoConstants">>

FinalizeFPM == <<"EliminateConcatSlice", "FoldSlicesIntoConstants", "DCE">>

\* The rest of compile once its parallelizeFunction call has returned.
CompileFinish ==
  /\ phase = "compile"
  /\ planPc = "done"
  /\ planLog' = [planLog EXCEPT ![Len(planLog)].result = planResult,
                                ![Len(planLog)].replaced = DOMAIN replacedMap,
                                ![Len(planLog)].left = funInfo]
  /\ passesRun' = IF planResult = "true" THEN passesRun \o FinalizeFPM ELSE passesRun
  /\ phase' = IF planResult = "error" THEN "failed" ELSE "compiled"
  /\ UNCHANGED <<usePerNodeParallelizationSpec, fnNodes, GlowNNPINumParallelChunks,
                 backendSpecificOpts, GlowDisableNNPITransforms>>
  /\ UNCHANGED <<fnSize, hasFunInfo, funInfo, planPc, planIdx, numChunks, parOpts,
                 replacedMap, planResult>>
  /\ UNCHANGED <<fcSplit, varsBind, varsOracle, varsLower, varsFusion>>

\* The same function, which no call has rewritten, is compiled once more with
\* the same options.
CompileAgain ==
  /\ phase = "compiled"
  /\ \A i \in DOMAIN planLog : planLog[i].replaced = {}
  /\ Cardinality({i \in DOMAIN planLog : planLog[i].perNode}) < MaxCompiles
  /\ phase' = "start"
  /\ planPc' = "idle"
  /\ planIdx' = 0
  /\ numChunks' = <<>>
  /\ parOpts' = <<>>
  /\ replacedMap' = <<>>
  /\ planResult' = "none"
  /\ UNCHANGED <<usePerNodeParallelizationSpec, fnNodes, GlowNNPINumParallelChunks,
                 backendSpecificOpts, GlowDisableNNPITransforms, planLog, passesRun>>
  /\ UNCHANGED <<fnSize, hasFunInfo, funInfo>>
  /\ UNCHANGED <<fcSplit, varsBind, varsOracle, varsLower, varsFusion>>

SpecCompile ==
  InitCompile /\ [][NextPlan \/ TransformPostLowering \/ CompileBegin \/ CompileFinish
                      \/ CompileAgain]_vars

\* ------------------------------------------------------------------------
\* Fusion unblocking
\* ------------------------------------------------------------------------
\* A node of F is [kind, input, min, max]: input is the node its only operand
\* comes from (NullNode for a Placeholder or Constant), min and max are the
\* bounds of a ClipNode. F->getNodes() lists the nodes by ascending number.

\* The loop body of removeClipsBlockingFusion up to the rewrite: the ClipNode
\* between the FC and the activation that feeds clipActivation, NullNode when
\* the pattern is not there.
clipBlockingFusionNoRelu(nodes, clipActivation) ==
  IF nodes[clipActivation].kind # "ClipNodeKind"
  THEN NullNode
  ELSE LET activation == nodes[clipActivation].input
       IN IF activation \notin DOMAIN nodes
             \/ nodes[activation].kind \notin {"SigmoidNodeKind", "TanhNodeKind"}
          THEN NullNode
          ELSE LET clipFC == nodes[activation].input
               IN IF clipFC \notin DOMAIN nodes \/ nodes[clipFC].kind # "ClipNodeKind"
                  THEN NullNode
                  ELSE IF nodes[clipFC].min # nodes[clipActivation].min
                          \/ nodes[clipFC].max # nodes[clipActivation].max
                  THEN NullNode
                  ELSE LET FC == nodes[clipFC].input
                       IN IF FC \notin DOMAIN nodes
                             \/ nodes[FC].kind # "FullyConnectedNodeKind"
                          THEN NullNode
                          ELSE clipFC

\* Faulty matcher: the bounds of the two clips are not compared.
clipBlockingFusionAnyBounds(nodes, clipActivation) ==
  IF nodes[clipActivation].kind # "ClipNodeKind"
  THEN NullNode
  ELSE LET activation == nodes[clipActivation].input
       IN IF activation \notin DOMAIN nodes
             \/ nodes[activation].kind
                  \notin {"ReluNodeKind", "SigmoidNodeKind", "TanhNodeKind"}
          THEN NullNode
          ELSE LET clipFC == nodes[activation].input
               IN IF clipFC \notin DOMAIN nodes \/ nodes[clipFC].kind # "ClipNodeKind"
                  THEN NullNode
                  ELSE LET FC == nodes[clipFC].input
                       IN IF FC \notin DOMAIN nodes
                             \/ nodes[FC].kind # "FullyConnectedNodeKind"
                          THEN NullNode
                          ELSE clipFC

clipBlockingFusion(nodes, clipActivation) ==
  IF nodes[clipActivation].kind # "ClipNodeKind"
  THEN NullNode
  ELSE LET activation == nodes[clipActivation].input
       IN IF activation \notin DOMAIN nodes
             \/ nodes[activation].kind
                  \notin {"ReluNodeKind", "SigmoidNodeKind", "TanhNodeKind"}
          THEN NullNode
          ELSE LET clipFC == nodes[activation].input
               IN IF clipFC \notin DOMAIN nodes \/ nodes[clipFC].kind # "ClipNodeKind"
                  THEN NullNode
                  ELSE IF nodes[clipFC].min # nodes[clipActivation].min
                          \/ nodes[clipFC].max # nodes[clipActivation].max
                  THEN NullNode
                  ELSE LET FC == nodes[clipFC].input
                       IN IF FC \notin DOMAIN nodes
                             \/ nodes[FC].kind # "FullyConnectedNodeKind"
                          THEN NullNode
                          ELSE clipFC

\* The functions tried: producer -> node 2 -> node 3 -> node 4 -> Save, where
\* the producer is an FC or not, nodes 2 and 4 are clips (with one of two pairs
\* of bounds) or not, node 3 is one of the three activations or not; and up to
\* MaxFusionUsers more Save nodes, each reading one of the four nodes.
InitFusion ==
  /\ \E producer \in {"FullyConnectedNodeKind", "AddNodeKind"} :
     \E activation \in {"ReluNodeKind", "SigmoidNodeKind", "TanhNodeKind", "LogNodeKind"} :
     \E k \in 0 .. MaxFusionUsers :
     \E reads \in [1 .. k -> 1 .. 4] :
       LET around == {[kind |-> "ClipNodeKind", min |-> 0, max |-> 100],
                      [kind |-> "ClipNodeKind", min |-> -100, max |-> 100],
                      [kind |-> "LogNodeKind", min |-> 0, max |-> 0]}
       IN \E inner \in around : \E outer \in around :
            fusionNodes =
              [n \in 1 .. 5 + k |->
                 CASE n = 1 -> [kind |-> producer, input |-> NullNode, min |-> 0, max |-> 0]
                   [] n = 2 -> [kind |-> inner.kind, input |-> 1,
                                min |-> inner.min, max |-> inner.max]
                   [] n = 3 -> [kind |-> activation, input |-> 2, min |-> 0, max |-> 0]
                   [] n = 4 -> [kind |-> outer.kind, input |-> 3,
                                min |-> outer.min, max |-> outer.max]
                   [] n = 5 -> [kind |-> "SaveNodeKind", input |-> 4, min |-> 0, max |-> 0]
                   [] OTHER -> [kind |-> "SaveNodeKind", input |-> reads[n - 5],
                                min |-> 0, max |-> 0]]
  /\ fusionBefore = fusionNodes
  /\ fusionIdx = 1
  /\ fusionPc = "loop"
  /\ changed = FALSE
  /\ IdleBind
  /\ IdleOracle
  /\ IdleLower
  /\ IdlePlan

\* One iteration of the loop of removeClipsBlockingFusion.
VisitNode ==
  /\ fusionPc = "loop"
  /\ fusionIdx \in DOMAIN fusionNodes
  /\ LET clipFC == clipBlockingFusion(fusionNodes, fusionIdx)
     IN IF clipFC = NullNode
        THEN UNCHANGED <<fusionNodes, changed>>
        ELSE /\ fusionNodes' =
                  [n \in DOMAIN fusionNodes |->
                     IF fusionNodes[n].input = clipFC
                     THEN [fusionNodes[n] EXCEPT !.input = fusionNodes[clipFC].input]
                     ELSE fusionNodes[n]]
             /\ changed' = TRUE
  /\ fusionIdx' = fusionIdx + 1
  /\ UNCHANGED <<fusionBefore, fusionPc>>
  /\ UNCHANGED <<varsBind, varsOracle, varsLower, varsPlan, varsPipe>>

\* return changed;
FusionReturn ==
  /\ fusionPc = "loop"
  /\ fusionIdx \notin DOMAIN fusionNodes
  /\ fusionPc' = "returned"
  /\ UNCHANGED <<fusionNodes, fusionBefore, fusionIdx, changed>>
  /\ UNCHANGED <<varsBind, varsOracle, varsLower, varsPlan, varsPipe>>

\* Dead code elimination, run on F by the optimizer after the backend reported a
\* change: it deletes, until none is left, each node without users that is not
\* a SaveNode.
DCE ==
  /\ fusionPc = "returned"
  /\ changed
  /\ LET dead(nodes) == {n \in DOMAIN nodes :
                           /\ nodes[n].kind # "SaveNodeKind"
                           /\ \A m \in DOMAIN nodes : nodes[m].input # n}
         RECURSIVE sweep(_)
         sweep(nodes) == IF dead(nodes) = {}
                         THEN nodes
                         ELSE sweep([n \in (DOMAIN nodes) \ dead(nodes) |-> nodes[n]])
     IN fusionNodes' = sweep(fusionNodes)
  /\ fusionPc' = "cleaned"
  /\ UNCHANGED <<fusionBefore, fusionIdx, changed>>
  /\ UNCHANGED <<varsBind, varsOracle, varsLower, varsPlan, varsPipe>>

SpecFusion == InitFusion /\ [][VisitNode \/ FusionReturn \/ DCE]_vars

\* ------------------------------------------------------------------------
\* Properties of bindContexts
\* ------------------------------------------------------------------------
ChildSet(n) == {children[n][k] : k \in 1 .. Len(children[n])}

HasBinding(n) == \E i \in 1 .. Len(bindings) : bindings[i].networkName = n

CalledNames == {bindCalls[i].name : i \in 1 .. Len(bindCalls)}

WriterConflict == \E p \in DOMAIN phUsage : phUsage[p].numWriters >= 2

AllDevicesValid == \A i \in 1 .. Len(bindings) : bindings[i].deviceIsNNPI

\* C1: once the writer counts of all bindings are accumulated, a placeholder
\* with two or more writers makes bindContexts return an error, and no device
\* bindContext call is ever issued.
C1_WriterConflictRejected ==
  (AllDevicesValid /\ pc # "idle" /\ WriterConflict)
    => /\ bindCalls = <<>>
       /\ pc \in {"check", "done"}
       /\ (pc = "done" => bindResult = "error")

C1_Witness ==
  /\ AllDevicesValid
  /\ pc = "done"
  /\ "W" \in DOMAIN phUsage
  /\ phUsage["W"].numWriters = 2
  /\ bindResult = "error"
  /\ bindCalls = <<>>

\* C2: bind calls are issued in post-order: postOrder lists every partition
\* reachable from the root exactly once with every child before its parents,
\* no partition is bound twice, and when a partition is bound every child of
\* it that gets bound at all was bound earlier.
C2_PostOrderBinding ==
  pc # "idle" =>
    /\ {postOrder[i] : i \in 1 .. Len(postOrder)} = DagNodes
    /\ Len(postOrder) = dagSize
    /\ \A i \in 1 .. Len(postOrder) : \A c \in ChildSet(postOrder[i]) :
         \E j \in 1 .. (i - 1) : postOrder[j] = c
    /\ \A i, j \in 1 .. Len(bindCalls) :
         bindCalls[i].name = bindCalls[j].name => i = j
    /\ \A i \in 1 .. Len(bindCalls) : \A c \in ChildSet(bindCalls[i].name) :
         (backendName[c] = NNPIName /\ HasBinding(c))
           => \E j \in 1 .. (i - 1) : bindCalls[j].name = c

C2_Witness ==
  /\ pc = "done"
  /\ bindResult = "success"
  /\ dagSize = 3
  /\ ChildSet(1) = {2, 3}
  /\ ChildSet(2) = {3}
  /\ children[1][1] = 2
  /\ Len(bindCalls) = 3
  /\ bindCalls[1].name = 3
  /\ bindCalls[3].name = 1

\* C3: a failed device bind call ends bindContexts with an error at once:
\* the failed call is the last call ever issued, and the calls logged before
\* it are never taken back (the log only grows at its end).
C3_FailureState ==
  \A i \in 1 .. Len(bindCalls) :
    bindCalls[i].failed => (i = Len(bindCalls) /\ pc = "done" /\ bindResult = "error")

C3_FailureStep ==
  /\ Len(bindCalls') >= Len(bindCalls)
  /\ SubSeq(bindCalls', 1, Len(bindCalls)) = bindCalls
  /\ (\E i \in 1 .. Len(bindCalls) : bindCalls[i].failed) => bindCalls' = bindCalls

C3_BindFailureIsFatal == [](C3_FailureState) /\ [][C3_FailureStep]_vars

C3_Witness ==
  /\ pc = "done"
  /\ bindResult = "error"
  /\ Len(bindCalls) = 2
  /\ ~bindCalls[1].failed
  /\ bindCalls[2].failed
  /\ Len(postOrder) = 3

\* C4: a partition with no matching binding, or of another backend, gets no
\* bind call and causes no error: errors come only from an invalid device
\* manager, a writer conflict or a failed bind call, and a successful return
\* has bound exactly the NNPI partitions that have a binding.
C4_UnboundPartitionsSkipped ==
  /\ \A n \in CalledNames : backendName[n] = NNPIName /\ HasBinding(n)
  /\ bindResult = "error" =>
       \/ ~AllDevicesValid
       \/ WriterConflict
       \/ (bindCalls # <<>> /\ bindCalls[Len(bindCalls)].failed)
  /\ bindResult = "success" =>
       CalledNames = {n \in DagNodes : backendName[n] = NNPIName /\ HasBinding(n)}

C4_Witness ==
  /\ pc = "done"
  /\ bindResult = "success"
  /\ dagSize = 3
  /\ postOrder = <<3, 2, 1>>
  /\ backendName[3] = NNPIName /\ ~HasBinding(3)
  /\ backendName[2] # NNPIName /\ HasBinding(2)
  /\ CalledNames = {1}


\* ------------------------------------------------------------------------
\* Properties of the legality oracle
\* ------------------------------------------------------------------------
SupportedVerdicts == {r[2] : r \in supportedSeen}

SLSKinds == {"SparseLengthsSumNodeKind", "SparseLengthsWeightedSumNodeKind"}

UnarySLS ==
  /\ ni.kind \in SLSKinds
  /\ isOpSupported(ni)
  /\ isUnaryLookup(getInTy(ni, "Data"))

\* C5: for a sparse-lengths-sum or sparse-lengths-weighted-sum node that
\* isOpSupported accepts and whose data input is [N, 1], every call of
\* acceptForExecution returns the value the accept-unary-lookup flag has at the
\* call (false when the flag is false, true when it is true), and every call of
\* isOpSupported, under either flag value, returns true.
C5_UnaryLookupPolicy ==
  UnarySLS =>
    /\ \A r \in acceptSeen : r[2] = r[1]
    /\ \A r \in supportedSeen : r[2] = TRUE

C5_Witness ==
  /\ UnarySLS
  /\ acceptSeen = {<<FALSE, FALSE>>, <<TRUE, TRUE>>}
  /\ supportedSeen = {<<FALSE, TRUE>>, <<TRUE, TRUE>>}

SubstituteIn(NI, pos, k) == [NI EXCEPT !.inTy[pos].elem = k]

SubstituteOut(NI, pos, k) == [NI EXCEPT !.outTy[pos].elem = k]

\* C6: when isOpSupported has accepted the node, replacing the element kind of
\* any one input or output by a kind its arm does not name for that position
\* gives a node isOpSupported rejects.
C6_SubstitutionRejected ==
  (TRUE \in SupportedVerdicts) =>
    /\ \A pos \in DOMAIN ni.inTy :
         \A k \in ElemKinds \ ListedKinds(ni.kind).in[pos] :
           ~isOpSupported(SubstituteIn(ni, pos, k))
    /\ \A pos \in DOMAIN ni.outTy :
         \A k \in ElemKinds \ ListedKinds(ni.kind).out[pos] :
           ~isOpSupported(SubstituteOut(ni, pos, k))

C6_Witness ==
  /\ TRUE \in SupportedVerdicts
  /\ ni.kind = "FullyConnectedNodeKind"
  /\ getInElemTy(ni, "Input") = "Int8QTy"
  /\ getInElemTy(ni, "Bias") = "Int32QTy"
  /\ "Int64ITy" \notin ListedKinds(ni.kind).in["Bias"]
  /\ ~isOpSupported(SubstituteIn(ni, "Bias", "Int64ITy"))

GatherStyleKinds == {"GatherNodeKind", "GatherRangesNodeKind"}

IndicesPos(kind) == IF kind = "GatherRangesNodeKind" THEN "Ranges" ELSE "Indices"

RECURSIVE Product(_, _)
Product(dims, i) == IF i > Len(dims) THEN 1 ELSE dims[i] * Product(dims, i + 1)

\* The number of indices the indices input of the node holds.
IndexCount(NI) == Product(getInTy(NI, IndicesPos(NI.kind)).dims, 1)

WithIndicesDims(NI, dims) == [NI EXCEPT !.inTy[IndicesPos(NI.kind)].dims = dims]

\* C7 as stated: every index-consuming node (sparse-lengths-sum family,
\* embedding-bag family, gather-style) holding 65536 or more indices is rejected
\* by isOpSupported.
C7_AllIndexConsumersBounded ==
  (ni.kind \in SLSFamilyKinds \cup GatherStyleKinds /\ IndexCount(ni) >= MaxSLSIndices)
    => SupportedVerdicts \subseteq {FALSE}

\* C7, amended: the bound is applied by the sparse-lengths-sum and embedding-bag
\* families only. There isOpSupported rejects an indices input that is not
\* 1-dimensional or holds 65536 or more indices, while at 65535 indices the
\* verdict is the one a single index gets (the bound does not bite). For Gather
\* and GatherRanges the verdict does not depend on the number of indices.
C7_SLSIndexBound ==
  /\ (ni.kind \in SLSFamilyKinds /\ IndexCount(ni) >= MaxSLSIndices)
       => SupportedVerdicts \subseteq {FALSE}
  /\ (ni.kind \in SLSFamilyKinds /\ getInTy(ni, "Indices").dims = <<MaxSLSIndices - 1>>)
       => SupportedVerdicts \subseteq {isOpSupported(WithIndicesDims(ni, <<1>>))}
  /\ (ni.kind \in GatherStyleKinds)
       => SupportedVerdicts \subseteq {isOpSupported(WithIndicesDims(ni, <<1>>))}

C7_Witness ==
  /\ ni.kind = "EmbeddingBagNodeKind"
  /\ getInTy(ni, "Indices").dims = <<MaxSLSIndices>>
  /\ SupportedVerdicts = {FALSE}
  /\ isOpSupported(WithIndicesDims(ni, <<MaxSLSIndices - 1>>))

\* C8: all calls of isOpSupported on one operation instance return the same
\* verdict, whatever the values of the accept-unary-lookup,
\* lower-all-batch-matmul and infer-on-device flags at each call and whatever
\* calls of isOpSupported or acceptForExecution were made in between.
C8_VerdictDependsOnInstanceOnly ==
  \A a, b \in supportedSeen : a[2] = b[2]

C8_Witness ==
  /\ UnarySLS
  /\ GlowNNPILowerAllBatchMatMul
  /\ inferOnDevice
  /\ acceptSeen # {}
  /\ supportedSeen = {<<FALSE, TRUE>>, <<TRUE, TRUE>>}


\* ------------------------------------------------------------------------
\* Properties of the parallelization planner
\* ------------------------------------------------------------------------
HasSplitKind(node) ==
  /\ node \in DOMAIN funInfo
  /\ parallelTransformKindKey \in DOMAIN funInfo[node]
  /\ funInfo[node][parallelTransformKindKey] \in {<<"Data">>, <<"Model">>}

\* Exactly one chunk-count value, and it parses as an integer greater than 1.
HasGoodChunkCount(node) ==
  /\ numParallelChunksKey \in DOMAIN funInfo[node]
  /\ Len(funInfo[node][numParallelChunksKey]) = 1
  /\ getIntFromStr(funInfo[node][numParallelChunksKey][1]).ok
  /\ getIntFromStr(funInfo[node][numParallelChunksKey][1]).val > 1

\* C9: when parallelizeFunction has returned and some node annotated with
\* transform-kind "Data" or "Model" lacks a chunk-count, has several, has one
\* that is not an integer or has one that is 1 or less, the return value is an
\* error; and every node that was planned for splitting has a chunk-count
\* greater than 1 and the kind Data or Model.
C9_ChunkCountRequired ==
  /\ (planPc = "done" /\ \E node \in 1 .. fnSize :
                           HasSplitKind(node) /\ ~HasGoodChunkCount(node))
       => planResult = "error"
  /\ \A node \in DOMAIN numChunks :
       numChunks[node] > 1 /\ parOpts[node] \in {"Data", "Model"}

C9_Witness ==
  /\ planPc = "done"
  /\ planResult = "error"
  /\ fnSize = 2
  /\ DOMAIN numChunks = {1}
  /\ HasSplitKind(2)
  /\ numParallelChunksKey \in DOMAIN funInfo[2]
  /\ funInfo[2][numParallelChunksKey] = <<(<<"1">>)>>

ChunkCountWithoutKind(node) ==
  /\ node \in DOMAIN funInfo
  /\ numParallelChunksKey \in DOMAIN funInfo[node]
  /\ parallelTransformKindKey \notin DOMAIN funInfo[node]

\* C10 as stated: when parallelizeFunction has returned and some node carries
\* a chunk-count annotation but no transform-kind annotation, the return
\* value is an error.
C10_ChunkCountWithoutKindIsError ==
  (planPc = "done" /\ \E node \in 1 .. fnSize : ChunkCountWithoutKind(node))
    => planResult = "error"

\* The run that refutes it: the only annotated node has a chunk-count and no
\* transform-kind, and parallelizeFunction returns "no change" without error.
C10_Witness ==
  /\ planPc = "done"
  /\ planResult = "false"
  /\ fnSize = 1
  /\ ChunkCountWithoutKind(1)
  /\ funInfo[1][numParallelChunksKey] = <<(<<"2">>)>>
  /\ DOMAIN numChunks = {}

\* The node carries a directive the parser rejects: several or no values for
\* the transform-kind, an unrecognized transform-kind, or a Data/Model kind
\* whose chunk-count is missing, multiple, not an integer or not above 1.
MalformedDirective(node) ==
  /\ node \in DOMAIN funInfo
  /\ parallelTransformKindKey \in DOMAIN funInfo[node]
  /\ \/ Len(funInfo[node][parallelTransformKindKey]) # 1
     \/ funInfo[node][parallelTransformKindKey][1] \notin {"Data", "Model", "None"}
     \/ (HasSplitKind(node) /\ ~HasGoodChunkCount(node))

\* C11: when some directive of the function is malformed, parallelizeFunction
\* never reaches parallelizeOps or the validation, records no rewrite, and
\* returns an error; the annotations are left as they were.
C11_ConfigErrorState ==
  (hasFunInfo /\ \E node \in 1 .. fnSize : MalformedDirective(node))
    => /\ planPc \in {"idle", "setup", "done"}
       /\ replacedMap = <<>>
       /\ (planPc = "done" => planResult = "error")

C11_ConfigErrorStep ==
  (hasFunInfo /\ \E node \in 1 .. fnSize : MalformedDirective(node))
    => (funInfo' = funInfo /\ replacedMap' = replacedMap)

C11_ConfigErrorBeforeRewrite == [](C11_ConfigErrorState) /\ [][C11_ConfigErrorStep]_vars

C11_Witness ==
  /\ planPc = "done"
  /\ planResult = "error"
  /\ fnSize = 2
  /\ DOMAIN numChunks = {1}
  /\ MalformedDirective(2)
  /\ funInfo[2][parallelTransformKindKey] = <<"Pipeline">>
  /\ replacedMap = <<>>

\* C13: when parallelizeFunction has returned "changed" in directive mode, the
\* recorded rewrites are exactly the planned nodes, every replaced node has no
\* user left and its ConcatNode has as many inputs as the chunk-count parsed
\* from the node's annotation, and the annotation record of every replaced
\* node is erased.
C13_ChangedOnlyIfValidated ==
  (planPc = "done" /\ planResult = "true")
    => /\ DOMAIN replacedMap = DOMAIN numChunks
       /\ replacedMap # <<>>
       /\ \A node \in DOMAIN replacedMap :
            /\ replacedMap[node].users = 0
            /\ replacedMap[node].inputs = numChunks[node]
            /\ node \notin DOMAIN funInfo

C13_Witness ==
  /\ planPc = "done"
  /\ planResult = "true"
  /\ DOMAIN replacedMap = {1, 2}
  /\ replacedMap[1].inputs = 2
  /\ replacedMap[2].inputs = 3
  /\ funInfo = <<>>

CarriesAnnotation(node) ==
  /\ node \in DOMAIN funInfo
  /\ \E key \in {parallelTransformKindKey, numParallelChunksKey} \cup PlacementKeys :
       key \in DOMAIN funInfo[node]

\* C14 as stated: whenever parallelizeFunction has returned without error in
\* directive mode, no node carries a transform-kind, chunk-count or placement
\* annotation.
C14_NoAnnotationLeftWithoutError ==
  (planPc = "done" /\ planResult \in {"true", "false"})
    => ~(\E node \in 1 .. fnSize : CarriesAnnotation(node))

\* C14, amended: the residual scan runs only after a rewrite. When
\* parallelizeFunction has returned "changed", no node carries a transform-kind,
\* chunk-count or placement annotation; when a rewrite was recorded and some
\* node still carries one, the return value is an error; a return without
\* error that leaves an annotation behind is the "no change" return, with no
\* rewrite recorded.
C14_NoResidualAfterRewrite ==
  planPc = "done" =>
    /\ planResult = "true" => ~(\E node \in 1 .. fnSize : CarriesAnnotation(node))
    /\ (replacedMap # <<>> /\ \E node \in 1 .. fnSize : CarriesAnnotation(node))
         => planResult = "error"
    /\ (planResult # "error" /\ \E node \in 1 .. fnSize : CarriesAnnotation(node))
         => (planResult = "false" /\ replacedMap = <<>>)

C14_Witness ==
  /\ planPc = "done"
  /\ planResult = "error"
  /\ fnSize = 2
  /\ DOMAIN replacedMap = {1}
  /\ replacedMap[1].users = 0
  /\ replacedMap[1].inputs = numChunks[1]
  /\ 1 \notin DOMAIN funInfo
  /\ CarriesAnnotation(2)
  /\ DOMAIN funInfo[2] = {coreAssignmentsKey}

\* ---- C15: LogitNode under shouldLower.
\* C15 as stated: shouldLower answers true for a logit node unless all its
\* inputs and outputs are 32-bit float, and false when they all are.
C15_LogitLoweredUnlessFloat ==
  (lowerSeen.called /\ ni.kind = "LogitNodeKind")
    => (lowerSeen.verdict
          <=> ~(ni.inTy.Input.elem = "FloatTy" /\ ni.outTy.Result.elem = "FloatTy"))

\* C15 amended: shouldLower answers true for a logit node exactly when all its
\* inputs and outputs are 32-bit float, and false for every other typing.
C15_LogitLoweredIffFloat ==
  (lowerSeen.called /\ ni.kind = "LogitNodeKind")
    => (lowerSeen.verdict
          <=> (ni.inTy.Input.elem = "FloatTy" /\ ni.outTy.Result.elem = "FloatTy"))

C15_Witness ==
  /\ lowerSeen.called
  /\ ni.kind = "LogitNodeKind"
  /\ ni.inTy.Input.elem = "Float16Ty"
  /\ ni.outTy.Result.elem = "Float16Ty"
  /\ ~lowerSeen.verdict

\* ---- C16: the whole of shouldLower against its reference.
\* C16: a kind outside the allow-list is lowered; a kind the allow-list names
\* without a condition is not; a clip is lowered iff its result is neither
\* Float16 nor Int8Q; a convolution iff it has the shape of a fully-connected
\* node; a SparseLengthsSum iff the device or the runtime-inference flag is on.
C16_ShouldLowerReference ==
  lowerSeen.called =>
    LET kind == ni.kind
        conditional == {"ClipNodeKind", "ConvolutionNodeKind",
                        "SparseLengthsSumNodeKind", "LogitNodeKind"}
        unconditional ==
          {"FullyConnectedNodeKind", "ConcatNodeKind", "SigmoidNodeKind",
           "TanhNodeKind", "ReluNodeKind", "Convolution3DNodeKind", "TileNodeKind",
           "LogNodeKind", "ReplaceNaNNodeKind", "LocalResponseNormalizationNodeKind",
           "BatchedReduceMeanNodeKind", "BatchedReduceMinNodeKind",
           "BatchMatMulNodeKind", "BatchNormalizationNodeKind",
           "ChannelwiseQuantizedConvolutionNodeKind", "AdaptiveAvgPoolNodeKind",
           "EmbeddingBagNodeKind", "EmbeddingBagByteRowwiseOffsetsNodeKind",
           "LayerNormalizationNodeKind",
           "FusedRowwiseQuantizedSparseLengthsSumNodeKind", "PReluNodeKind"}
    IN /\ (kind \notin conditional \cup unconditional) => lowerSeen.verdict
       /\ (kind \in unconditional) => ~lowerSeen.verdict
       /\ (kind = "ClipNodeKind") =>
            (lowerSeen.verdict <=> (ni.outTy.Result.elem # "Float16Ty"
                                      /\ ni.outTy.Result.elem # "Int8QTy"))
       /\ (kind = "ConvolutionNodeKind") => (lowerSeen.verdict <=> lowerSeen.sameAsFC)
       /\ (kind = "SparseLengthsSumNodeKind") =>
            (lowerSeen.verdict <=> (lowerSeen.useIceT \/ lowerSeen.inferOnDevice))

C16_Witness ==
  /\ lowerSeen.called
  /\ ni.kind = "SparseLengthsSumNodeKind"
  /\ lowerSeen.inferOnDevice
  /\ ~lowerSeen.useIceT
  /\ lowerSeen.verdict

\* ------------------------------------------------------------------------
\* Properties of the fusion-unblocking rewrite
\* ------------------------------------------------------------------------
\* F held the chain FC -> clip -> activation -> clip, both clips with the same
\* bounds, when removeClipsBlockingFusion was called.
ChainBefore ==
  /\ fusionPc # "idle"
  /\ fusionBefore[1].kind = "FullyConnectedNodeKind"
  /\ fusionBefore[2].kind = "ClipNodeKind"
  /\ fusionBefore[3].kind \in {"ReluNodeKind", "SigmoidNodeKind", "TanhNodeKind"}
  /\ fusionBefore[4].kind = "ClipNodeKind"
  /\ fusionBefore[2].min = fusionBefore[4].min
  /\ fusionBefore[2].max = fusionBefore[4].max

C18_RewritePreservesValues ==
  (ChainBefore /\ fusionPc \in {"returned", "cleaned"}) =>
    LET clip(v, lo, hi) == IF v < lo THEN lo ELSE IF v > hi THEN hi ELSE v
        sigmoid == (-200 :> 12) @@ (-100 :> 27) @@ (0 :> 50) @@ (100 :> 73) @@ (200 :> 88)
        tanh == (-200 :> -96) @@ (-100 :> -76) @@ (0 :> 0) @@ (100 :> 76) @@ (200 :> 96)
        RECURSIVE value(_, _, _)
        value(nodes, n, x) ==
          IF nodes[n].input = NullNode
          THEN x
          ELSE LET v == value(nodes, nodes[n].input, x)
               IN CASE nodes[n].kind = "ClipNodeKind" -> clip(v, nodes[n].min, nodes[n].max)
                    [] nodes[n].kind = "ReluNodeKind" -> IF v < 0 THEN 0 ELSE v
                    [] nodes[n].kind = "SigmoidNodeKind" -> sigmoid[v]
                    [] nodes[n].kind = "TanhNodeKind" -> tanh[v]
                    [] OTHER -> v
    IN \A x \in {-200, -100, 0, 100, 200} :
         /\ value(fusionNodes, 4, x) = value(fusionBefore, 4, x)
         /\ \A user \in DOMAIN fusionBefore :
              (fusionBefore[user].input = 2 /\ user # 3)
                => value(fusionNodes, user, x) = value(fusionBefore, user, x)

C18_Witness ==
  /\ ChainBefore
  /\ fusionPc = "returned"
  /\ changed
  /\ fusionBefore[3].kind = "SigmoidNodeKind"
  /\ fusionBefore[2].min = 0
  /\ fusionNodes[3].input = 1

\* ------------------------------------------------------------------------
\* Properties of the planning calls of a compilation
\* ------------------------------------------------------------------------
\* ---- C12: the calls that have nothing to do.
\* C12: a directive-mode call made when F has no annotation entry or an empty
\* annotation set, and a heuristic-mode call made when the effective default
\* chunk count is at most 1, return "no change" without error, replace no node
\* and leave the annotations as they were; made again in the same situation
\* they return the same.
C12_NoOpCalls ==
  LET defaultAtMostOne ==
        \/ GlowNNPINumParallelChunks # 0 /\ GlowNNPINumParallelChunks <= 1
        \/ /\ GlowNNPINumParallelChunks = 0
           /\ \/ NNPINumParallelChunksKey \notin DOMAIN backendSpecificOpts
              \/ backendSpecificOpts[NNPINumParallelChunksKey] = <<"1">>
      nothingToDo(call) ==
        IF call.perNode THEN ~hasFunInfo \/ call.info = <<>> ELSE defaultAtMostOne
  IN /\ \A i \in DOMAIN planLog :
          (planLog[i].result # "none" /\ nothingToDo(planLog[i]))
            => /\ planLog[i].result = "false"
               /\ planLog[i].replaced = {}
               /\ planLog[i].left = planLog[i].info
     /\ \A i, j \in DOMAIN planLog :
          (/\ planLog[i].perNode = planLog[j].perNode
           /\ planLog[i].result # "none" /\ planLog[j].result # "none"
           /\ nothingToDo(planLog[i]) /\ nothingToDo(planLog[j]))
            => planLog[i].result = planLog[j].result

C12_Witness ==
  /\ phase = "compiled"
  /\ Len(planLog) = 4
  /\ \A i \in 1 .. 4 : planLog[i].result = "false"
  /\ GlowNNPINumParallelChunks = 1
  /\ hasFunInfo
  /\ funInfo = <<>>
  /\ fnSize >= 1
  /\ fnNodes[1].kind = "TransposeNodeKind"

\* ---- C19: the two planning sources.
\* C19: in one compilation of a function at most one of the heuristic call
\* (transformPostLowering) and the directive call (compile) rewrites it.
C19_OneSourcePerCompilation ==
  ~(\E i, j \in DOMAIN planLog :
      /\ ~planLog[i].perNode /\ planLog[i].result = "true" /\ planLog[i].replaced # {}
      /\ planLog[j].perNode /\ planLog[j].result = "true" /\ planLog[j].replaced # {})

C19_Witness ==
  /\ phase = "compiled"
  /\ Len(planLog) = 2
  /\ planLog[1].replaced = {1}
  /\ planLog[2].replaced = {2}
  /\ planLog[1].result = "true"
  /\ planLog[2].result = "true"
  /\ fnNodes[1].kind = "TransposeNodeKind"
  /\ GlowNNPINumParallelChunks = 2

\* ---- C20: the cleanup after a rewrite.
\* C20 as stated: once the compilation is through, the narrow cleanup
\* (EliminateConcatSlice, FoldSlicesIntoConstants, DCE, in that order) has been
\* run if a planning call, heuristic or directive, rewrote F, and no pass has
\* been run if none did.
C20_CleanupAfterAnyRewrite ==
  phase = "compiled" =>
    passesRun = IF \E i \in DOMAIN planLog : planLog[i].result = "true"
                THEN <<"EliminateConcatSlice", "FoldSlicesIntoConstants", "DCE">>
                ELSE <<>>

\* C20 amended: the narrow cleanup is run, in that order, by compile after its
\* directive-mode call returned "changed", and only then: it is not run when
\* that call returned "no change" or an error, and transformPostLowering runs
\* no pass whatever its heuristic-mode call returned.
C20_CleanupAfterDirectiveRewrite ==
  passesRun = IF \E i \in DOMAIN planLog : planLog[i].perNode /\ planLog[i].result = "true"
              THEN <<"EliminateConcatSlice", "FoldSlicesIntoConstants", "DCE">>
              ELSE <<>>

C20_Witness ==
  /\ phase = "compiled"
  /\ Len(planLog) = 2
  /\ planLog[1].result = "false"
  /\ planLog[2].result = "true"
  /\ passesRun = <<"EliminateConcatSlice", "FoldSlicesIntoConstants", "DCE">>

\* ------------------------------------------------------------------------
\* Heuristic planning
\* ------------------------------------------------------------------------
\* The chunk count the flag and the backend option stand for: the flag when it
\* is not 0, else the option, else 0 (planning disabled). The option values of
\* the runs are written out; -1 stands for a value that is not a number.
DefaultChunksOf(flag, opts) ==
  IF flag # 0 THEN flag
  ELSE IF NNPINumParallelChunksKey \notin DOMAIN opts THEN 0
  ELSE CASE opts[NNPINumParallelChunksKey] = <<"1">> -> 1
         [] opts[NNPINumParallelChunksKey] = <<"2">> -> 2
         [] opts[NNPINumParallelChunksKey] = <<"3">> -> 3
         [] OTHER -> -1

HeuristicCallStarted ==
  /\ ~usePerNodeParallelizationSpec
  /\ planPc \in {"setup", "ops", "done"}

OptionUnreadable ==
  /\ GlowNNPINumParallelChunks = 0
  /\ NNPINumParallelChunksKey \in DOMAIN backendSpecificOpts
  /\ backendSpecificOpts[NNPINumParallelChunksKey] \notin {<<"1">>, <<"2">>, <<"3">>}

\* C21: in heuristic mode the default chunk count is the flag when it is not
\* 0, else the backend option NNPINumParallelChunks when present, else
\* planning is disabled; a default of 1 or less plans no node and the call
\* returns false, and above 1 every planned node carries exactly the default
\* and a node the heuristic always plans (a Transpose) is planned.
C21_DefaultChunkCount ==
  (HeuristicCallStarted /\ ~OptionUnreadable) =>
    LET expected == DefaultChunksOf(GlowNNPINumParallelChunks, backendSpecificOpts)
    IN IF expected <= 1
       THEN /\ numChunks = <<>>
            /\ parOpts = <<>>
            /\ planPc = "done"
            /\ planResult = "false"
       ELSE /\ \A n \in DOMAIN numChunks : numChunks[n] = expected
            /\ \A n \in 1 .. fnSize :
                 fnNodes[n].kind = "TransposeNodeKind" => n \in DOMAIN numChunks

C21_Witness ==
  /\ HeuristicCallStarted
  /\ planPc = "ops"
  /\ GlowNNPINumParallelChunks = 2
  /\ NNPINumParallelChunksKey \in DOMAIN backendSpecificOpts
  /\ backendSpecificOpts[NNPINumParallelChunksKey] = <<"3">>
  /\ 1 \in DOMAIN numChunks
  /\ numChunks[1] = 2

\* setupBasicParallelizationConfigs has run: the call is past its entry and the
\* default chunk count was above 1.
HeuristicPlanned ==
  /\ HeuristicCallStarted
  /\ ~OptionUnreadable
  /\ DefaultChunksOf(GlowNNPINumParallelChunks, backendSpecificOpts) > 1

IsPlanned(n) == n \in DOMAIN numChunks /\ n \in DOMAIN parOpts

PlannedAs(n, kind) == IsPlanned(n) /\ parOpts[n] = kind

SamePlan(n, m) ==
  IF IsPlanned(m)
  THEN IsPlanned(n) /\ parOpts[n] = parOpts[m] /\ numChunks[n] = numChunks[m]
  ELSE ~IsPlanned(n)

FedByFC(n) ==
  /\ fnNodes[n].input # NullNode
  /\ fnNodes[fnNodes[n].input].kind = "FullyConnectedNodeKind"

\* C23: in heuristic mode an FC is planned Model exactly when the second
\* dimension of its weights is at least 512; otherwise Data exactly when the
\* first dimension of its input is at least 256; otherwise it is unplanned.
C23_FullyConnectedRule ==
  HeuristicPlanned =>
    \A n \in 1 .. fnSize :
      fnNodes[n].kind = "FullyConnectedNodeKind" =>
        /\ PlannedAs(n, "Model") <=> fnNodes[n].K >= 512
        /\ PlannedAs(n, "Data") <=> (fnNodes[n].K < 512 /\ fnNodes[n].inDims[1] >= 256)
        /\ IsPlanned(n) <=> (fnNodes[n].K >= 512 \/ fnNodes[n].inDims[1] >= 256)

C23_Witness ==
  /\ HeuristicPlanned
  /\ planPc = "ops"
  /\ fnSize >= 2
  /\ fnNodes[1].kind = "FullyConnectedNodeKind"
  /\ fnNodes[1].K = 511
  /\ fnNodes[1].inDims[1] = 256
  /\ PlannedAs(1, "Data")
  /\ fnNodes[2].kind = "FullyConnectedNodeKind"
  /\ fnNodes[2].K = 512
  /\ PlannedAs(2, "Model")

\* C24 as stated: a Relu, Sigmoid or Tanh fed by an FC is planned like that FC,
\* and unplanned when the FC is unplanned.
C24_ActivationMirrorsFC ==
  HeuristicPlanned =>
    \A n \in 1 .. fnSize :
      (fnNodes[n].kind \in {"ReluNodeKind", "SigmoidNodeKind", "TanhNodeKind"}
         /\ FedByFC(n))
        => SamePlan(n, fnNodes[n].input)

\* C24: a Relu fed by an FC is planned with the transform kind and the chunk
\* count of that FC, and is unplanned when the FC is unplanned.
C24_ReluMirrorsFC ==
  HeuristicPlanned =>
    \A n \in 1 .. fnSize :
      (fnNodes[n].kind = "ReluNodeKind" /\ FedByFC(n))
        => SamePlan(n, fnNodes[n].input)

C24_Witness ==
  /\ HeuristicPlanned
  /\ planPc = "ops"
  /\ fnSize = 3
  /\ fnNodes[2].kind = "FullyConnectedNodeKind"
  /\ fnNodes[3].kind = "ReluNodeKind"
  /\ PlannedAs(2, "Model")
  /\ PlannedAs(3, "Model")
  /\ numChunks[3] = numChunks[2]

\* C25: a Clip is planned exactly when the node producing its input is
\* planned, and then with the transform kind and the chunk count of that node;
\* along a chain FC -> Clip -> Clip every Clip carries the plan of the FC.
C25_ClipMirrorsInput ==
  HeuristicPlanned =>
    \A n \in 1 .. fnSize :
      fnNodes[n].kind = "ClipNodeKind" => SamePlan(n, fnNodes[n].input)

C25_Witness ==
  /\ HeuristicPlanned
  /\ planPc = "ops"
  /\ fnSize = 3
  /\ fnNodes[1].kind = "FullyConnectedNodeKind"
  /\ fnNodes[2].kind = "ClipNodeKind"
  /\ fnNodes[3].kind = "ClipNodeKind"
  /\ PlannedAs(1, "Model")
  /\ PlannedAs(2, "Model")
  /\ PlannedAs(3, "Model")
  /\ numChunks[3] = numChunks[1]

\* ------------------------------------------------------------------------
\* Required-node lowering
\* ------------------------------------------------------------------------
NodeAllFloat == allInputsAndOutputsHaveSameElemKind(ni, {"FloatTy"}, {}, {})

\* C26 as stated: with the flag unset an all-FloatTy BatchMatMul is left in
\* place and every other BatchMatMul is decomposed; with the flag set every
\* BatchMatMul is decomposed.
C26_FloatBatchMatMulKept ==
  (requiredSeen.called /\ ni.kind = "BatchMatMulNodeKind")
    => (requiredSeen.changed <=> (requiredSeen.lowerAllBMM \/ ~NodeAllFloat))

\* C26: with the flag unset an all-FloatTy BatchMatMul is decomposed and every
\* other BatchMatMul is left in place; with the flag set every BatchMatMul is
\* decomposed.
C26_FloatBatchMatMulLowered ==
  (requiredSeen.called /\ ni.kind = "BatchMatMulNodeKind")
    => (requiredSeen.changed <=> (requiredSeen.lowerAllBMM \/ NodeAllFloat))

C26_Witness ==
  /\ requiredSeen.called
  /\ ni.kind = "BatchMatMulNodeKind"
  /\ ~requiredSeen.lowerAllBMM
  /\ ni.inTy.Input.elem = "Int8QTy"
  /\ ni.outTy.Result.elem = "Int8QTy"
  /\ ~requiredSeen.changed

\* ------------------------------------------------------------------------
\* Fusion unblocking: where the graph may change
\* ------------------------------------------------------------------------
\* The full pattern in the function as handed over; in the chain only node 4
\* can be an outer clip, node 3 its activation, node 2 the inner clip and node
\* 1 the producer.
FullPatternBefore ==
  /\ fusionBefore[4].kind = "ClipNodeKind"
  /\ fusionBefore[3].kind \in {"ReluNodeKind", "SigmoidNodeKind", "TanhNodeKind"}
  /\ fusionBefore[2].kind = "ClipNodeKind"
  /\ fusionBefore[2].min = fusionBefore[4].min
  /\ fusionBefore[2].max = fusionBefore[4].max
  /\ fusionBefore[1].kind = "FullyConnectedNodeKind"

\* C27: removeClipsBlockingFusion changes the function only where the full
\* pattern holds: without it (bounds differ, another activation, a producer
\* that is not an FC, a node that is not a clip) the function stays as handed
\* over and changed stays false; with it the only nodes changed are the users
\* of the inner clip, which read the FC instead.
C27_ChangeOnlyOnFullPattern ==
  fusionPc \in {"loop", "returned", "cleaned"} =>
    /\ ~FullPatternBefore => (fusionNodes = fusionBefore /\ ~changed)
    /\ fusionPc # "cleaned" =>
         /\ DOMAIN fusionNodes = DOMAIN fusionBefore
         /\ \A n \in DOMAIN fusionNodes :
              fusionNodes[n] # fusionBefore[n] =>
                /\ FullPatternBefore
                /\ changed
                /\ fusionBefore[n].input = 2
                /\ fusionNodes[n] = [fusionBefore[n] EXCEPT !.input = 1]

C27_Witness ==
  /\ fusionPc = "returned"
  /\ fusionBefore[1].kind = "FullyConnectedNodeKind"
  /\ fusionBefore[2].kind = "ClipNodeKind"
  /\ fusionBefore[3].kind = "ReluNodeKind"
  /\ fusionBefore[4].kind = "ClipNodeKind"
  /\ fusionBefore[2].min # fusionBefore[4].min
  /\ fusionNodes = fusionBefore
  /\ ~changed

\* ------------------------------------------------------------------------
\* bindContexts: the capability flags
\* ------------------------------------------------------------------------
\* C28: at every device bind call every record of the usage table handed to
\* the call has disableP2P = ~enableP2P and disableDRT = ~enableDRT, the same
\* for every placeholder and every partition.
C28_FlagsAtEveryBindCall ==
  [][Len(bindCalls') > Len(bindCalls) =>
       \A p \in DOMAIN phUsage' :
         /\ phUsage'[p].disableP2P = ~enableP2P
         /\ phUsage'[p].disableDRT = ~enableDRT]_vars

C28_Witness ==
  /\ Len(bindCalls) >= 2
  /\ bindCalls[1].name # bindCalls[2].name
  /\ Cardinality(DOMAIN phUsage) >= 2
  /\ enableP2P
  /\ ~enableDRT
  /\ \A p \in DOMAIN phUsage : ~phUsage[p].disableP2P /\ phUsage[p].disableDRT

\* ------------------------------------------------------------------------
\* acceptForExecution against isOpSupported
\* ------------------------------------------------------------------------
\* The node is a SparseLengthsSum or SparseLengthsWeightedSum whose Data input
\* has two dimensions, the second being 1.
UnaryDataLookup ==
  /\ ni.kind \in {"SparseLengthsSumNodeKind", "SparseLengthsWeightedSumNodeKind"}
  /\ "Data" \in DOMAIN ni.inTy
  /\ Len(ni.inTy.Data.dims) = 2
  /\ ni.inTy.Data.dims[2] = 1

\* C30: acceptForExecution returns true only if isOpSupported returns true,
\* and under the same flag value the two verdicts differ exactly when the
\* node is a supported SLS or SLWS with a unary Data input and the
\* accept-unary flag is false.
C30_AcceptRefinesSupported ==
  \A a \in acceptSeen : \A s \in supportedSeen :
    /\ a[2] => s[2]
    /\ a[1] = s[1] =>
         ((a[2] # s[2]) <=> (s[2] /\ UnaryDataLookup /\ ~a[1]))

C30_Witness ==
  /\ UnaryDataLookup
  /\ ni.kind = "SparseLengthsWeightedSumNodeKind"
  /\ <<FALSE, FALSE>> \in acceptSeen
  /\ <<FALSE, TRUE>> \in supportedSeen
  /\ <<TRUE, TRUE>> \in acceptSeen

\* ------------------------------------------------------------------------
\* Directive mode: the transform kind "None"
\* ------------------------------------------------------------------------
\* The nodes whose only annotation is parallelTransformKind = ["None"].
NoneNodes ==
  {n \in 1 .. fnSize :
     /\ n \in DOMAIN funInfo
     /\ funInfo[n] = (parallelTransformKindKey :> <<"None">>)}

\* parallelizeOps did what the plan asked: every planned node was replaced by a
\* ConcatNode with as many inputs as chunks, and has no user left.
FaithfulRewrite ==
  /\ DOMAIN replacedMap = DOMAIN numChunks
  /\ \A n \in DOMAIN replacedMap :
       /\ replacedMap[n].users = 0
       /\ replacedMap[n].inputs = numChunks[n]

\* C29: a node annotated "None" without chunk count is left unsplit and never
\* makes parallelizeFunction fail: when every other node is either without
\* annotation or carries a directive that was accepted and carried out, the
\* call returns without error, whether or not some node was split.
C29_NoneNeverFails ==
  (/\ usePerNodeParallelizationSpec
   /\ planPc = "done"
   /\ NoneNodes # {}
   /\ \A n \in 1 .. fnSize :
        n \in NoneNodes \/ n \in DOMAIN numChunks \/ n \notin DOMAIN funInfo
   /\ FaithfulRewrite)
    => /\ planResult # "error"
       /\ NoneNodes \cap DOMAIN replacedMap = {}
       /\ NoneNodes \cap DOMAIN numChunks = {}

C29_Witness ==
  /\ usePerNodeParallelizationSpec
  /\ planPc = "done"
  /\ fnSize = 2
  /\ NoneNodes = {2}
  /\ DOMAIN numChunks = {1}
  /\ FaithfulRewrite
  /\ 1 \notin DOMAIN funInfo
  /\ planResult = "error"

\* ------------------------------------------------------------------------
\* The Model split of a FullyConnected keeps the output
\* ------------------------------------------------------------------------
\* C22: splitting one FullyConnected Model-wise into N chunks and joining the
\* N partial outputs along the split dimension gives exactly the output of the
\* unsplit node, for every input: the same shape, the value the node computed,
\* and element by element input x weights + bias.
C22_ModelSplitKeepsOutput ==
  fcSplit.pc = "split" =>
    /\ fcSplit.cat = fcSplit.out
    /\ Len(fcSplit.cat) = Len(fcSplit.input)
    /\ \A r \in 1 .. Len(fcSplit.input) :
         /\ Len(fcSplit.cat[r]) = Len(fcSplit.bias)
         /\ \A c \in 1 .. Len(fcSplit.bias) :
              fcSplit.cat[r][c] = fcSplit.input[r][1] * fcSplit.weights[1][c]
                                    + fcSplit.input[r][2] * fcSplit.weights[2][c]
                                    + fcSplit.bias[c]

C22_Witness ==
  /\ fcSplit.pc = "split"
  /\ fcSplit.numOfChunks = 3
  /\ Len(fcSplit.bias) = 4
  /\ Len(fcSplit.input) = 2
  /\ fcSplit.bias = <<0, 5, 5, 0>>
  /\ fcSplit.weights[1] = <<-1, 3, 3, -1>>
  /\ fcSplit.cat = fcSplit.out

====
